---- MODULE Spec2Model ----
(***************************************************************************)
(* The plan worker of router-bridge: the run() loop that receives planner  *)
(* events from the host, dispatches on their kind against the planners map *)
(* and sends one result back per event.                                    *)
(*                                                                         *)
(* Modelled from router-bridge/js-src (the current worker, with            *)
(* GetHeapStatistics and the remembered messageId) and plan.ts             *)
(* (BridgeQueryPlanner).  The opaque libraries (@apollo/federation-        *)
(* internals, @apollo/query-planner, graphql) are represented by their     *)
(* reaction to a small alphabet of SDL texts and query texts.              *)
(*                                                                         *)
(* Under Spec the host ops receive() and send() never reject: a receive()  *)
(* resolves when a message is queued and a send() resolves after the       *)
(* payload was handed to the host.                                         *)
(*                                                                         *)
(* The module also holds the host's awaiters of the responses (HostSpec,   *)
(* TimeoutSpec), the one-shot composition script of harmonizer             *)
(* (ComposeSpec), the logger test worker (LoggerSpec), and the functions   *)
(* plan, apiSchema, introspect and batchIntrospect called on their own     *)
(* with any of their inputs (FnSpec).                                      *)
(***************************************************************************)
EXTENDS Naturals, Integers, Sequences, FiniteSets, TLC

VARIABLES
  inbox,      \* host -> worker channel: events enqueued and not yet received
  nextId,     \* host: the next fresh correlation id
  hostGone,   \* host: it dropped its ends of the channels (ops reject)
  pc,         \* run(): "receive" | "handle" | "send" | "done" | "crashed",
              \* and "killed" once the host tore the context down
  cur,        \* run(): the destructured message { id, payload: event }
  messageId,  \* run(): let messageId = ""
  planners,   \* let planners = new Map<number, BridgeQueryPlanner>()
  pending,    \* the send() calls that were made and have not settled yet
  sendCtx,    \* the send() run() awaits: "try" | "inner" | "outer" | "none"
  delivered,  \* history: ids in the order receive() resolved them
  sent,       \* history: ids of the responses handed to the host, in order
  handled,    \* history: number of loop iterations that ran to their end
  updates,    \* history, per schema id: "none", "failed" (every
              \* UpdateSchema for it failed) or "built" (one succeeded)
  lastError,  \* history: the schema id of the session named by the request
              \* before this one when that was answered with an errors
              \* payload (NoId otherwise)
  serviceList, \* do_compose: the global serviceList the host sets
  composed,    \* do_compose: what composeServices does when it is called
  doneCalls,   \* do_compose: the results passed to done(), in order
  scriptPc,    \* do_compose: "off" (not this script) | "start" | "end"
  lastPlan,    \* history: the last Plan event answered since the last
               \* UpdateSchema or Exit, and the payload it was answered with
  awaiting,    \* host: the await_response calls in the order their requests
               \* were sent, each with its correlation id and its outcome
  lgInbox,     \* logger worker: commands enqueued and not yet received
  lgNextId,    \* logger worker's host: the next fresh command id
  lgPc,        \* logger worker: "off" | "receive" | "handle" | "send" | "done"
  lgCur,       \* logger worker: the command received in this iteration
  lgPending,   \* logger worker: the send() call that has not settled yet
  lgSent,      \* logger worker: the replies handed to the host, in order
  lgCalls,     \* logger worker: the calls of logger functions, in order
  call,        \* a library function called on its own: the function and
               \* its arguments
  ret          \* what that call returned or threw, and what it logged

workerVars == <<inbox, nextId, hostGone, pc, cur, messageId, planners,
                pending, sendCtx, delivered, sent, handled, updates, lastError,
                lastPlan, awaiting>>

scriptVars == <<serviceList, composed, doneCalls, scriptPc>>

loggerVars == <<lgInbox, lgNextId, lgPc, lgCur, lgPending, lgSent, lgCalls>>

fnVars == <<call, ret>>

vars == <<inbox, nextId, hostGone, pc, cur, messageId, planners, pending,
          sendCtx, delivered, sent, handled, updates, lastError,
          serviceList, composed, doneCalls, scriptPc, lastPlan, awaiting,
          lgInbox, lgNextId, lgPc, lgCur, lgPending, lgSent, lgCalls,
          call, ret>>

----------------------------------------------------------------------------
(* Bounds *)

MaxRequests == 4

MaxQueue == 1

----------------------------------------------------------------------------
(* Input alphabet *)

SchemaIds == {1, 2}

\* SDL texts: two that the library accepts, one it rejects with a single
\* GraphQLError, one it rejects with a list of errors.
GoodSchemas == {"sdlA", "sdlB"}

BadSchemas == {"malformed", "invalid"}

Schemas == GoodSchemas \cup BadSchemas

\* Query texts: one that plans, one that plan() reports as errors, one on
\* which the planner library throws.
Queries == {"q_ok", "q_invalid", "q_throws"}

NoId == 0

Events ==
       [kind : {"UpdateSchema"}, schema : Schemas, schemaId : SchemaIds]
  \cup [kind : {"Plan"}, query : Queries, schemaId : SchemaIds]
  \cup [kind : {"ApiSchema", "Introspect", "Signature", "Subgraphs", "Exit"},
        schemaId : SchemaIds]
  \cup [kind : {"GetHeapStatistics", "Bogus"}]

NoMsg == [id |-> NoId, payload |-> [kind |-> "none"]]

\* No Plan was answered since the last UpdateSchema or Exit.
NoPlan == [event |-> [kind |-> "none"]]

\* The Plan responses are not recorded in this run.
Unobserved == [event |-> [kind |-> "unobserved"]]

----------------------------------------------------------------------------
(* Thrown values and their translation *)

\* obj restricted to those of the named fields it has (an undefined field
\* is dropped when the payload is serialised).
Pick(obj, fields) == [f \in (fields \cap DOMAIN obj) |-> obj[f]]

SyntaxError ==
  [name |-> "GraphQLError", message |-> "Syntax Error",
   locations |-> <<[line |-> 1, column |-> 1]>>, extensions |-> [e \in {} |-> e]]

InvalidGraphQL ==
  [name |-> "GraphQLError", message |-> "Invalid supergraph",
   extensions |-> [code |-> "INVALID_GRAPHQL"],
   originalError |-> [name |-> "Error", message |-> "cause", stack |-> "at cause"],
   causes |-> <<[message |-> "c1", extensions |-> [code |-> "C1"], name |-> "GraphQLError",
                 causes |-> <<[message |-> "c2", extensions |-> [code |-> "C2"],
                               name |-> "GraphQLError"]>>]>>]

PlainError == [name |-> "Error", message |-> "unsupported", stack |-> "at build"]

MissingPlanner ==
  [name |-> "TypeError", message |-> "Cannot read properties of undefined",
   stack |-> "at run"]

PlannerThrow == [name |-> "Error", message |-> "planning failed", stack |-> "at plan"]

isGraphQLErrorExt(error) ==
  error.name = "GraphQLError" \/ error.name = "CheckFailed"

intoSerializableError(error) ==
  Pick(error, {"name", "message", "stack"})
    @@ [validationError |->
          IF "validationError" \in DOMAIN error THEN error.validationError
                                                 ELSE FALSE]

intoCauseError(error) == Pick(error, {"locations", "message", "extensions"})

\* Variant of intoSerializableGraphQLErrorExt: the causes are left out.
intoSerializableGraphQLErrorExtNoCauses(error) ==
  Pick(error, {"name", "message", "locations", "path", "extensions", "nodes",
               "source", "positions"})
    @@ (IF "originalError" \in DOMAIN error
          THEN [originalError |-> intoSerializableError(error.originalError)]
          ELSE [f \in {} |-> f])
    @@ [validationError |->
          IF "validationError" \in DOMAIN error THEN error.validationError
                                                 ELSE FALSE]

intoSerializableGraphQLErrorExt(error) ==
  Pick(error, {"name", "message", "locations", "path", "extensions", "nodes",
               "source", "positions"})
    @@ (IF "originalError" \in DOMAIN error
          THEN [originalError |-> intoSerializableError(error.originalError)]
          ELSE [f \in {} |-> f])
    @@ (IF "causes" \in DOMAIN error
          THEN [causes |-> [i \in DOMAIN error.causes |->
                              intoCauseError(error.causes[i])]]
          ELSE [f \in {} |-> f])
    @@ [validationError |->
          IF "validationError" \in DOMAIN error THEN error.validationError
                                                 ELSE FALSE]

----------------------------------------------------------------------------
(* BridgeQueryPlanner *)

\* The value thrown by buildSupergraphSchema / toAPISchema / new QueryPlanner
\* for an SDL the library rejects: one throwable or an array of throwables.
LibraryThrows(schemaString) ==
  IF schemaString = "malformed"
    THEN [isArray |-> FALSE, items |-> <<SyntaxError>>]
    ELSE [isArray |-> TRUE, items |-> <<InvalidGraphQL, PlainError>>]

\* new BridgeQueryPlanner(schemaString, options)
BridgeQueryPlanner(schemaString) ==
  IF schemaString \in GoodSchemas
    THEN [threw |-> FALSE, planner |-> [schemaString |-> schemaString]]
    ELSE [threw |-> TRUE, err |-> LibraryThrows(schemaString)]

EmptyUsageReporting == [statsReportKey |-> "", referencedFieldsByType |-> {}]

PARSE_FAILURE == "## GraphQLParseFailure\n"

PARSE_FAILURE_EXT_CODE == "GRAPHQL_PARSE_FAILED"

VALIDATION_FAILURE == "## GraphQLValidationFailure\n"

VALIDATION_FAILURE_EXT_CODE == "GRAPHQL_VALIDATION_FAILED"

UNKNOWN_OPERATION == "## GraphQLUnknownOperationName\n"

\* A message is the sequence of its words; s.startsWith(prefix).
startsWith(s, prefix) ==
  /\ Len(prefix) <= Len(s)
  /\ \A i \in DOMAIN prefix : s[i] = prefix[i]

\* Validation errors as validate() gives them: extensions null, extensions
\* empty, and extensions with a code of the rule's own.
ValidationErrorNoExt == [message |-> "Cannot query field", path |-> <<"a">>]

ValidationErrorEmptyExt ==
  [message |-> "Unknown argument", extensions |-> [f \in {} |-> f]]

ValidationErrorWithExt ==
  [message |-> "Custom rule", extensions |-> [code |-> "CUSTOM_RULE"]]

\* The messages of the GraphQLError operationFromDocument throws.
UnknownOperationNamed == <<"Unknown", "operation", "named", "Op">>

MustProvideOperationName ==
  <<"Must", "provide", "operation", "name", "if", "query", "contains",
    "multiple", "operations.">>

UnknownFragment == <<"Unknown", "fragment", "named", "F">>

NoError == <<>>

\* A request text that parses, validates, resolves to an anonymous
\* operation, plans and pretty-prints.
PlainQuery ==
  [parses |-> TRUE, validationErrors |-> <<>>, resolveError |-> NoError,
   operationName |-> "", buildThrows |-> FALSE, prettyThrows |-> FALSE]

\* What the libraries plan() calls do with a request: whether parse() takes
\* it, the errors validate() finds, the message operationFromDocument throws
\* with (for the operation name given), the name of the resolved operation,
\* whether buildQueryPlan throws and whether prettyFormatQueryPlan throws.
\* A stage that is not reached has its reaction all the same.
Traits(query) ==
  CASE query = "q_ok" -> PlainQuery
    [] query = "q_invalid" -> [PlainQuery EXCEPT !.parses = FALSE]
    [] query = "q_throws" -> [PlainQuery EXCEPT !.buildThrows = TRUE]
    [] query = "q_named" -> [PlainQuery EXCEPT !.operationName = "Op"]
    [] query = "q_unknown_field" ->
         [PlainQuery EXCEPT !.validationErrors = <<ValidationErrorNoExt>>]
    [] query = "q_unknown_argument" ->
         [PlainQuery EXCEPT !.validationErrors =
                              <<ValidationErrorEmptyExt, ValidationErrorWithExt>>]
    [] query = "q_two_anonymous" ->
         [PlainQuery EXCEPT !.validationErrors = <<ValidationErrorWithExt>>,
                            !.resolveError = MustProvideOperationName]
    [] query = "q_unknown_field_throws" ->
         [PlainQuery EXCEPT !.validationErrors = <<ValidationErrorNoExt>>,
                            !.buildThrows = TRUE]
    [] query = "q_unknown_operation" ->
         [PlainQuery EXCEPT !.resolveError = UnknownOperationNamed]
    [] query = "q_two_named" ->
         [PlainQuery EXCEPT !.resolveError = MustProvideOperationName]
    [] query = "q_unknown_fragment" ->
         [PlainQuery EXCEPT !.resolveError = UnknownFragment,
                            !.buildThrows = TRUE]
    [] query = "q_unprintable" -> [PlainQuery EXCEPT !.prettyThrows = TRUE]
    [] query = "q_named_unprintable" ->
         [PlainQuery EXCEPT !.operationName = "Op", !.prettyThrows = TRUE]

\* The return of plan() for a request that fails a check.
planFailure(statsReportKey, errors) ==
  [threw |-> FALSE, logged |-> <<>>,
   result |-> [usageReporting |-> [statsReportKey |-> statsReportKey,
                                   referencedFieldsByType |-> {}],
               errors |-> errors]]

\* validationErrors.map(...): an error without extensions is replaced by a
\* GraphQLError with the validation code.
MapValidationError(error) ==
  IF "extensions" \notin DOMAIN error \/ DOMAIN error.extensions = {}
    THEN [f \in DOMAIN error \ {"extensions"} |-> error[f]]
           @@ [extensions |-> [code |-> VALIDATION_FAILURE_EXT_CODE]]
    ELSE error

\* The statsReportKey of the catch block around operationFromDocument.
ResolveFailureKey(message) ==
  IF \/ startsWith(message, <<"Unknown", "operation", "named">>)
     \/ startsWith(message, <<"Must", "provide", "operation", "name">>)
    THEN UNKNOWN_OPERATION
    ELSE VALIDATION_FAILURE

\* Variant of planBuilds: the failure of prettyFormatQueryPlan is returned
\* as an error.
planBuildsFailsOnPrettyPrint(planner, query) ==
  LET t == Traits(query) IN
  IF t.buildThrows THEN [threw |-> TRUE, logged |-> <<>>, err |-> PlannerThrow]
  ELSE IF t.prettyThrows
    THEN planFailure(VALIDATION_FAILURE, <<[message |-> "prettyFormatQueryPlan"]>>)
  ELSE [threw |-> FALSE, logged |-> <<>>,
        result |-> [usageReporting |->
                      [statsReportKey |->
                         <<"# ", IF t.operationName # "" THEN t.operationName
                                                          ELSE "-",
                           "\n", <<"signature", query>>>>,
                       referencedFieldsByType |-> {query}],
                    data |-> [queryPlan |-> <<planner.schemaString, query>>,
                              formattedQueryPlan |-> "QueryPlan {...}"]]]

\* plan() from the operation on: the derived data, buildQueryPlan, which
\* may throw, and prettyFormatQueryPlan, whose throw is logged.
planBuilds(planner, query) ==
  LET t == Traits(query) IN
  IF t.buildThrows THEN [threw |-> TRUE, logged |-> <<>>, err |-> PlannerThrow]
  ELSE [threw |-> FALSE,
        logged |-> IF t.prettyThrows
                     THEN <<[level |-> "warn",
                             message |-> <<"Couldn't generate pretty query plan for ",
                                           IF t.operationName # ""
                                             THEN <<"operation ", t.operationName>>
                                             ELSE "anonymous operation",
                                           ": ", "prettyFormatQueryPlan">>]>>
                     ELSE <<>>,
        result |-> [usageReporting |->
                      [statsReportKey |->
                         <<"# ", IF t.operationName # "" THEN t.operationName
                                                          ELSE "-",
                           "\n", <<"signature", query>>>>,
                       referencedFieldsByType |-> {query}],
                    data |-> [queryPlan |-> <<planner.schemaString, query>>,
                              formattedQueryPlan |->
                                IF t.prettyThrows THEN "null"
                                                  ELSE "QueryPlan {...}"]]]

\* Variant of plan: the operation is resolved before the document is
\* validated.
planResolvesFirst(planner, query) ==
  LET t == Traits(query) IN
  IF ~t.parses
    THEN planFailure(PARSE_FAILURE,
                     <<[message |-> "Syntax Error",
                        extensions |-> [code |-> PARSE_FAILURE_EXT_CODE]]>>)
  ELSE IF t.resolveError # NoError
    THEN planFailure(ResolveFailureKey(t.resolveError),
                     <<[message |-> t.resolveError,
                        extensions |-> [code |-> VALIDATION_FAILURE_EXT_CODE]]>>)
  ELSE IF Len(t.validationErrors) > 0
    THEN planFailure(VALIDATION_FAILURE,
                     [i \in DOMAIN t.validationErrors |->
                        MapValidationError(t.validationErrors[i])])
  ELSE planBuilds(planner, query)

\* Variant of plan: an error result carries a data field.
planErrorsWithData(planner, query) ==
  LET t == Traits(query) IN
  IF ~t.parses
    THEN planFailure(PARSE_FAILURE,
                     <<[message |-> "Syntax Error",
                        extensions |-> [code |-> PARSE_FAILURE_EXT_CODE]]>>)
  ELSE IF Len(t.validationErrors) > 0
    THEN [planFailure(VALIDATION_FAILURE,
                      [i \in DOMAIN t.validationErrors |->
                         MapValidationError(t.validationErrors[i])])
            EXCEPT !.result = @ @@ [data |-> "null"]]
  ELSE IF t.resolveError # NoError
    THEN planFailure(ResolveFailureKey(t.resolveError),
                     <<[message |-> t.resolveError,
                        extensions |-> [code |-> VALIDATION_FAILURE_EXT_CODE]]>>)
  ELSE planBuilds(planner, query)

\* planner.plan(query, operationName, options); the request text stands
\* for the operation string together with the operation name given.
plan(planner, query) ==
  LET t == Traits(query) IN
  IF ~t.parses
    THEN planFailure(PARSE_FAILURE,
                     <<[message |-> "Syntax Error",
                        extensions |-> [code |-> PARSE_FAILURE_EXT_CODE]]>>)
  ELSE IF Len(t.validationErrors) > 0
    THEN planFailure(VALIDATION_FAILURE,
                     [i \in DOMAIN t.validationErrors |->
                        MapValidationError(t.validationErrors[i])])
  ELSE IF t.resolveError # NoError
    THEN planFailure(ResolveFailureKey(t.resolveError),
                     <<[message |-> t.resolveError,
                        extensions |-> [code |-> VALIDATION_FAILURE_EXT_CODE]]>>)
  ELSE planBuilds(planner, query)

----------------------------------------------------------------------------
(* updateQueryPlanner *)

UpdateOk ==
  [data |-> [queryPlan |-> [kind |-> "QueryPlan", node |-> "null"],
             formattedQueryPlan |-> "QueryPlan {}"],
   usageReporting |-> EmptyUsageReporting]

\* errorArray.map(...) of the catch block
SerializeThrown(err) ==
  [i \in DOMAIN err.items |->
     IF isGraphQLErrorExt(err.items[i])
       THEN intoSerializableGraphQLErrorExt(err.items[i])
       ELSE intoSerializableError(err.items[i])]

\* Variant of updateQueryPlanner: the entry is set although the
\* construction failed.
updateQueryPlannerSetsOnFailure(schema, schemaId) ==
  LET built == BridgeQueryPlanner(schema) IN
  [planners |-> [k \in DOMAIN planners \cup {schemaId} |->
                   IF k # schemaId THEN planners[k]
                   ELSE [schemaString |-> schema]],
   result |-> IF built.threw THEN [errors |-> SerializeThrown(built.err)]
                             ELSE UpdateOk]

\* Variant of updateQueryPlanner: a failed construction removes the entry
\* the schema id had.
updateQueryPlannerDeletesOnFailure(schema, schemaId) ==
  LET built == BridgeQueryPlanner(schema) IN
  IF ~built.threw
    THEN [planners |-> [k \in DOMAIN planners \cup {schemaId} |->
                          IF k = schemaId THEN built.planner ELSE planners[k]],
          result |-> UpdateOk]
    ELSE [planners |-> [k \in DOMAIN planners \ {schemaId} |-> planners[k]],
          result |-> [errors |-> SerializeThrown(built.err)]]

\* Variant of updateQueryPlanner: the map is cleared before the new planner
\* is set, so that one session lives at a time.
updateQueryPlannerSingleSession(schema, schemaId) ==
  LET built == BridgeQueryPlanner(schema) IN
  IF ~built.threw
    THEN [planners |-> [k \in {schemaId} |-> built.planner],
          result |-> UpdateOk]
    ELSE [planners |-> planners,
          result |-> [errors |-> SerializeThrown(built.err)]]

\* Variant of updateQueryPlanner: a session that exists keeps the planner it
\* has.
updateQueryPlannerKeepsExisting(schema, schemaId) ==
  LET built == BridgeQueryPlanner(schema) IN
  IF ~built.threw
    THEN [planners |-> [k \in DOMAIN planners \cup {schemaId} |->
                          IF k \in DOMAIN planners THEN planners[k]
                                                   ELSE built.planner],
          result |-> UpdateOk]
    ELSE [planners |-> planners,
          result |-> [errors |-> SerializeThrown(built.err)]]

\* The map after the call and the WorkerResult it returns.
updateQueryPlanner(schema, schemaId) ==
  LET built == BridgeQueryPlanner(schema) IN
  IF ~built.threw
    THEN [planners |-> [k \in DOMAIN planners \cup {schemaId} |->
                          IF k = schemaId THEN built.planner ELSE planners[k]],
          result |-> UpdateOk]
    ELSE [planners |-> planners,
          result |-> [errors |-> SerializeThrown(built.err)]]


----------------------------------------------------------------------------
(* run() *)

\* e.toString() of an Error
toString(e) == <<e.name, ": ", e.message>>

\* The payload both catch blocks build from the caught value e.
UnexpectedErrorPayload(e) ==
  [errors |-> <<[name |-> IF "name" \in DOMAIN e /\ e.name # "" THEN e.name
                                                                 ELSE "unknown",
                 message |-> IF "message" \in DOMAIN e THEN e.message ELSE "",
                 extensions |-> [code |-> "QUERY_PLANNING_FAILED",
                                 exception |-> [stacktrace |-> toString(e)]]]>>,
   usageReporting |-> EmptyUsageReporting]

\* What a rejected op call throws into run().
OpError == [name |-> "Error", message |-> "channel closed", stack |-> "at op"]

\* memoryUsage(): what op_runtime_memory_usage reports
memoryUsage == [heapTotal |-> 3, heapUsed |-> 2, external |-> 1, rss |-> 4]

\* The worker before run() has received anything.
WorkerStart ==
  /\ inbox = <<>>
  /\ nextId = 1
  /\ hostGone = FALSE
  /\ pc = "receive"
  /\ cur = NoMsg
  /\ messageId = NoId
  /\ planners = [k \in {} |-> k]
  /\ pending = <<>>
  /\ sendCtx = "none"
  /\ delivered = <<>>
  /\ sent = <<>>
  /\ handled = 0
  /\ updates = [k \in SchemaIds |-> "none"]
  /\ lastError = NoId
  /\ awaiting = <<>>

WorkerInit ==
  /\ WorkerStart
  /\ lastPlan = Unobserved

\* The logger worker is not the script of this run.
LoggerOff ==
  /\ lgInbox = <<>>
  /\ lgNextId = 1
  /\ lgPc = "off"
  /\ lgCur = NoMsg
  /\ lgPending = <<>>
  /\ lgSent = <<>>
  /\ lgCalls = <<>>

NoCall == [fn |-> "none"]

NoReturn == [kind |-> "none"]

\* No library function is called on its own in this run.
FnOff ==
  /\ call = NoCall
  /\ ret = NoReturn

\* The worker run on its own: no composition script in this run.
Init ==
  /\ WorkerInit
  /\ serviceList = <<>>
  /\ composed = [kind |-> "none"]
  /\ doneCalls = <<>>
  /\ scriptPc = "off"
  /\ LoggerOff
  /\ FnOff

\* Variant of HostSend: the correlation id is the request's place in the
\* channel, so an id whose response is still awaited is issued again.
HostSendReusesId ==
  /\ ~hostGone
  /\ nextId <= MaxRequests
  /\ Len(inbox) < MaxQueue
  /\ \E ev \in Events :
       inbox' = Append(inbox, [id |-> Len(inbox) + 1, payload |-> ev])
  /\ awaiting' = Append(awaiting, [id |-> Len(inbox) + 1, state |-> "waiting"])
  /\ nextId' = nextId + 1
  /\ UNCHANGED <<scriptVars, loggerVars, fnVars, hostGone, pc, cur, messageId, planners, pending, sendCtx,
                 delivered, sent, handled, updates, lastError, lastPlan>>

\* The host enqueues a request under a fresh correlation id and a host task
\* awaits the response to it.
HostSend ==
  /\ ~hostGone
  /\ nextId <= MaxRequests
  /\ Len(inbox) < MaxQueue
  /\ \E ev \in Events :
       inbox' = Append(inbox, [id |-> nextId, payload |-> ev])
  /\ awaiting' = Append(awaiting, [id |-> nextId, state |-> "waiting"])
  /\ nextId' = nextId + 1
  /\ UNCHANGED <<scriptVars, loggerVars, fnVars, hostGone, pc, cur, messageId, planners, pending, sendCtx,
                 delivered, sent, handled, updates, lastError, lastPlan>>

\* Variant of Receive: the loop calls receive() again after run() returned.
ReceiveAfterReturn ==
  /\ pc \in {"receive", "done"}
  /\ inbox # <<>>
  /\ cur' = Head(inbox)
  /\ inbox' = Tail(inbox)
  /\ messageId' = Head(inbox).id
  /\ delivered' = Append(delivered, Head(inbox).id)
  /\ pc' = "handle"
  /\ UNCHANGED <<nextId, scriptVars, loggerVars, fnVars, hostGone, planners, pending, sendCtx, sent, handled,
                 updates, lastError, lastPlan, awaiting>>

\* const { id, payload: event } = await receive(); messageId = id;
Receive ==
  /\ pc = "receive"
  /\ inbox # <<>>
  /\ cur' = Head(inbox)
  /\ inbox' = Tail(inbox)
  /\ messageId' = Head(inbox).id
  /\ delivered' = Append(delivered, Head(inbox).id)
  /\ pc' = "handle"
  /\ UNCHANGED <<nextId, scriptVars, loggerVars, fnVars, hostGone, planners, pending, sendCtx, sent, handled,
                 updates, lastError, lastPlan, awaiting>>

\* Variant of NextIteration: messageId is declared outside the loop and
\* keeps the id of the iteration before.
NextIterationKeepsMessageId ==
  /\ pc' = "receive"
  /\ cur' = NoMsg
  /\ messageId' = messageId
  /\ sendCtx' = "none"
  /\ handled' = handled + 1

\* break without a send: the loop goes back to receive().
NextIteration ==
  /\ pc' = "receive"
  /\ cur' = NoMsg
  /\ messageId' = NoId
  /\ sendCtx' = "none"
  /\ handled' = handled + 1

\* Variant of send: the call is made and run() does not wait for it.
sendNoAwait(id, payload, ctx) ==
  /\ pending' = Append(pending, [id |-> id, payload |-> payload])
  /\ NextIteration
  /\ UNCHANGED <<inbox, nextId, scriptVars, loggerVars, fnVars, hostGone, delivered, sent, lastError, lastPlan, awaiting>>

\* await send({ id, payload }): the call is made and run() waits for it.
send(id, payload, ctx) ==
  /\ pending' = Append(pending, [id |-> id, payload |-> payload])
  /\ sendCtx' = ctx
  /\ pc' = "send"
  /\ UNCHANGED <<inbox, nextId, scriptVars, loggerVars, fnVars, hostGone, cur, messageId, delivered, sent,
                 handled, lastError, lastPlan, awaiting>>

\* Variant of InnerCatch: the caught value is logged and nothing is sent.
InnerCatchSwallow(e) ==
  /\ NextIteration
  /\ UNCHANGED <<inbox, nextId, scriptVars, loggerVars, fnVars, hostGone, pending, delivered, sent,
                 lastPlan, awaiting>>
  /\ lastError' = NoId

\* Variant of InnerCatch: the payload is sent without the id.
InnerCatchNoId(e) == send(NoId, UnexpectedErrorPayload(e), "inner")

\* Variant of InnerCatch: the payload is sent under the id before this one.
InnerCatchStaleId(e) == send(cur.id - 1, UnexpectedErrorPayload(e), "inner")

\* Variant of InnerCatch: no catch, the thrown value leaves run().
InnerCatchRethrow(e) ==
  /\ pc' = "crashed"
  /\ UNCHANGED <<inbox, nextId, scriptVars, loggerVars, fnVars, hostGone, cur, messageId, pending, sendCtx,
                 delivered, sent, handled, lastError, lastPlan, awaiting>>

\* The handler threw e: the inner catch sends an errors payload under id.
InnerCatch(e) == send(cur.id, UnexpectedErrorPayload(e), "inner")

HandleUpdateSchema ==
  /\ pc = "handle"
  /\ cur.payload.kind = "UpdateSchema"
  /\ LET r == updateQueryPlanner(cur.payload.schema, cur.payload.schemaId) IN
       /\ planners' = r.planners
       /\ updates' = [updates EXCEPT ![cur.payload.schemaId] =
                      IF ~BridgeQueryPlanner(cur.payload.schema).threw
                        THEN "built"
                        ELSE IF @ = "none" THEN "failed" ELSE @]
       /\ send(cur.id, r.result, "try")

getApiSchema(planner) == [schema |-> <<"api schema of", planner.schemaString>>]

introspect(planner) ==
  [data |-> <<"introspection of", planner.schemaString>>, errors |-> <<>>]

\* a string; wrapped in a record so that every payload is one
operationSignature(planner) == [signature |-> <<"signature of", planner.schemaString>>]

subgraphs(planner) == [accounts |-> <<"subgraph of", planner.schemaString>>]

\* planner[method](...) for the methods that do not throw
Call(method, planner) ==
  CASE method = "getApiSchema" -> getApiSchema(planner)
    [] method = "introspect" -> introspect(planner)
    [] method = "operationSignature" -> operationSignature(planner)
    [] OTHER -> subgraphs(planner)

\* const r = planners.get(event.schemaId).method(...); await send({id, payload: r})
WithPlanner(method) ==
  /\ UNCHANGED <<planners, updates>>
  /\ IF cur.payload.schemaId \in DOMAIN planners
       THEN send(cur.id, Call(method, planners[cur.payload.schemaId]), "try")
       ELSE InnerCatch(MissingPlanner)

\* Variant of HandlePlan: a planner that threw is taken out of the map.
HandlePlanDropsOnThrow ==
  /\ pc = "handle"
  /\ cur.payload.kind = "Plan"
  /\ UNCHANGED updates
  /\ IF cur.payload.schemaId \in DOMAIN planners
       THEN LET r == plan(planners[cur.payload.schemaId], cur.payload.query) IN
              IF r.threw
                THEN /\ planners' = [k \in DOMAIN planners \ {cur.payload.schemaId} |->
                                       planners[k]]
                     /\ InnerCatch(r.err)
                ELSE /\ planners' = planners
                     /\ send(cur.id, r.result, "try")
       ELSE /\ planners' = planners
            /\ InnerCatch(MissingPlanner)

HandlePlan ==
  /\ pc = "handle"
  /\ cur.payload.kind = "Plan"
  /\ UNCHANGED <<planners, updates>>
  /\ IF cur.payload.schemaId \in DOMAIN planners
       THEN LET r == plan(planners[cur.payload.schemaId], cur.payload.query) IN
              IF r.threw THEN InnerCatch(r.err)
                         ELSE send(cur.id, r.result, "try")
       ELSE InnerCatch(MissingPlanner)

HandleApiSchema ==
  /\ pc = "handle"
  /\ cur.payload.kind = "ApiSchema"
  /\ WithPlanner("getApiSchema")

HandleIntrospect ==
  /\ pc = "handle"
  /\ cur.payload.kind = "Introspect"
  /\ WithPlanner("introspect")

HandleSignature ==
  /\ pc = "handle"
  /\ cur.payload.kind = "Signature"
  /\ WithPlanner("operationSignature")

HandleSubgraphs ==
  /\ pc = "handle"
  /\ cur.payload.kind = "Subgraphs"
  /\ WithPlanner("subgraphs")

HandleGetHeapStatistics ==
  /\ pc = "handle"
  /\ cur.payload.kind = "GetHeapStatistics"
  /\ UNCHANGED <<planners, updates>>
  /\ send(cur.id, Pick(memoryUsage, {"heapTotal", "heapUsed", "external"}), "try")

\* Variant of DeletePlanner: planners.clear()
ClearPlanners(schemaId) == [k \in {} |-> k]

\* planners.delete(event.schemaId)
DeletePlanner(schemaId) ==
  [k \in DOMAIN planners \ {schemaId} |-> planners[k]]

\* Variant of HandleExit: the size check is missing and the loop goes on.
HandleExitNoReturn ==
  /\ pc = "handle"
  /\ cur.payload.kind = "Exit"
  /\ planners' = [k \in DOMAIN planners \ {cur.payload.schemaId} |-> planners[k]]
  /\ NextIteration
  /\ UNCHANGED <<inbox, nextId, scriptVars, loggerVars, fnVars, hostGone, pending, delivered, sent, updates>>
  /\ lastError' = NoId
  /\ lastPlan' = IF lastPlan = Unobserved THEN lastPlan ELSE NoPlan
  /\ UNCHANGED awaiting

\* Variant of HandleExit: run() returns on every Exit.
HandleExitAlwaysReturns ==
  /\ pc = "handle"
  /\ cur.payload.kind = "Exit"
  /\ planners' = [k \in DOMAIN planners \ {cur.payload.schemaId} |-> planners[k]]
  /\ pc' = "done"
  /\ handled' = handled + 1
  /\ UNCHANGED <<inbox, nextId, scriptVars, loggerVars, fnVars, hostGone, cur, messageId, pending, sendCtx,
                 delivered, sent, updates>>
  /\ lastError' = NoId
  /\ lastPlan' = IF lastPlan = Unobserved THEN lastPlan ELSE NoPlan
  /\ UNCHANGED awaiting

\* Variant of HandleExit: an Exit for a session that does not exist is
\* skipped.
HandleExitIgnoresUnknown ==
  /\ pc = "handle"
  /\ cur.payload.kind = "Exit"
  /\ planners' = [k \in DOMAIN planners \ {cur.payload.schemaId} |-> planners[k]]
  /\ IF cur.payload.schemaId \in DOMAIN planners /\ Cardinality(DOMAIN planners') = 0
       THEN /\ pc' = "done"
            /\ handled' = handled + 1
            /\ UNCHANGED <<cur, messageId, sendCtx>>
       ELSE NextIteration
  /\ UNCHANGED <<inbox, nextId, scriptVars, loggerVars, fnVars, hostGone, pending, delivered, sent, updates>>
  /\ lastError' = NoId
  /\ lastPlan' = IF lastPlan = Unobserved THEN lastPlan ELSE NoPlan
  /\ UNCHANGED awaiting

\* Variant of HandleExit: the request is answered with true before the
\* loop returns or goes on.
HandleExitReplies ==
  /\ pc = "handle"
  /\ cur.payload.kind = "Exit"
  /\ planners' = [k \in DOMAIN planners \ {cur.payload.schemaId} |-> planners[k]]
  /\ UNCHANGED updates
  /\ send(cur.id, [ok |-> TRUE], "try")

HandleExit ==
  /\ pc = "handle"
  /\ cur.payload.kind = "Exit"
  /\ planners' = DeletePlanner(cur.payload.schemaId)
  /\ IF Cardinality(DOMAIN planners') = 0
       THEN /\ pc' = "done"
            /\ handled' = handled + 1
            /\ UNCHANGED <<cur, messageId, sendCtx>>
       ELSE NextIteration
  /\ UNCHANGED <<inbox, nextId, scriptVars, loggerVars, fnVars, hostGone, pending, delivered, sent, updates>>
  /\ lastError' = NoId
  /\ lastPlan' = IF lastPlan = Unobserved THEN lastPlan ELSE NoPlan
  /\ UNCHANGED awaiting

KnownKinds ==
  {"UpdateSchema", "Plan", "ApiSchema", "Introspect", "Signature",
   "Subgraphs", "GetHeapStatistics", "Exit"}

\* Variant of HandleDefault: an unknown kind ends the loop.
HandleDefaultReturns ==
  /\ pc = "handle"
  /\ cur.payload.kind \notin {"UpdateSchema", "Plan", "ApiSchema", "Introspect",
                               "Signature", "Subgraphs", "GetHeapStatistics",
                               "Exit"}
  /\ pc' = "done"
  /\ handled' = handled + 1
  /\ lastError' = NoId
  /\ UNCHANGED <<lastPlan, awaiting>>
  /\ UNCHANGED <<inbox, nextId, scriptVars, loggerVars, fnVars, hostGone, cur, messageId, planners, pending,
                 sendCtx, delivered, sent, updates>>

\* default: logger.warn(`unknown message received ...`)
HandleDefault ==
  /\ pc = "handle"
  /\ cur.payload.kind \notin KnownKinds
  /\ NextIteration
  /\ UNCHANGED <<inbox, nextId, scriptVars, loggerVars, fnVars, hostGone, planners, pending, delivered, sent,
                 updates>>
  /\ lastError' = NoId
  /\ UNCHANGED <<lastPlan, awaiting>>

\* s without its i-th element
RemoveAt(s, i) == SubSeq(s, 1, i - 1) \o SubSeq(s, i + 1, Len(s))

\* The awaiters of correlation id that are still waiting, oldest first.
Waiting(id) ==
  {i \in DOMAIN awaiting : awaiting[i].id = id /\ awaiting[i].state = "waiting"}

Min(S) == CHOOSE x \in S : \A y \in S : x <= y

\* Variant of Deliver: a response no awaiter waits for is handed to the
\* oldest awaiter that still waits.
DeliverToOldest(id) ==
  LET any == {i \in DOMAIN awaiting : awaiting[i].state = "waiting"} IN
  IF Waiting(id) # {}
    THEN [awaiting EXCEPT ![Min(Waiting(id))].state = "answered"]
    ELSE IF any # {} THEN [awaiting EXCEPT ![Min(any)].state = "answered"]
                     ELSE awaiting

\* The host dispatches a Response by its correlation id: the awaiter that
\* waits for the id resumes with it; a Response under an id no awaiter
\* waits for (an unknown id, one that timed out) is discarded.
Deliver(id) ==
  IF Waiting(id) # {}
    THEN [awaiting EXCEPT ![Min(Waiting(id))].state = "answered"]
    ELSE awaiting

\* A send() settles with success: the host has the payload.  When run() is
\* awaiting a send it resumes and the iteration ends.
SendResolve ==
  /\ ~hostGone
  /\ \E i \in DOMAIN pending :
       /\ sent' = Append(sent, pending[i].id)
       /\ pending' = RemoveAt(pending, i)
       /\ awaiting' = Deliver(pending[i].id)
       /\ lastPlan' = IF pc # "send" \/ lastPlan = Unobserved THEN lastPlan
                       ELSE IF cur.payload.kind = "Plan"
                         THEN [event |-> cur.payload, payload |-> pending[i].payload]
                       ELSE IF cur.payload.kind = "UpdateSchema" THEN NoPlan
                       ELSE lastPlan
       /\ lastError' = IF /\ "errors" \in DOMAIN pending[i].payload
                          /\ pending[i].payload.errors # <<>>
                          /\ "schemaId" \in DOMAIN cur.payload
                          /\ cur.payload.schemaId \in DOMAIN planners
                         THEN cur.payload.schemaId
                         ELSE NoId
  /\ IF pc = "send"
       THEN NextIteration
       ELSE UNCHANGED <<pc, cur, messageId, sendCtx, handled>>
  /\ UNCHANGED <<inbox, nextId, scriptVars, loggerVars, fnVars, hostGone, planners, delivered, updates>>

----------------------------------------------------------------------------
(* Rejecting ops: the host dropped its ends of the channels *)

HostDrop ==
  /\ ~hostGone
  /\ hostGone' = TRUE
  /\ UNCHANGED <<inbox, nextId, scriptVars, loggerVars, fnVars, pc, cur, messageId, planners, pending, sendCtx,
                 delivered, sent, handled, updates, lastError, lastPlan, awaiting>>

\* Variant of ReceiveReject: no outer catch, the rejection leaves run().
ReceiveRejectEscapes ==
  /\ hostGone
  /\ pc = "receive"
  /\ pc' = "crashed"
  /\ UNCHANGED <<inbox, nextId, scriptVars, loggerVars, fnVars, hostGone, cur, messageId, planners, pending,
                 sendCtx, delivered, sent, handled, updates, lastError, lastPlan, awaiting>>

\* await receive() rejects: the outer catch sends under messageId, still "".
ReceiveReject ==
  /\ hostGone
  /\ pc = "receive"
  /\ send(messageId, UnexpectedErrorPayload(OpError), "outer")
  /\ UNCHANGED <<planners, updates>>

\* The awaited send() rejects.  In the try block the inner catch sends under
\* id; in the inner catch the outer catch sends under messageId; in the outer
\* catch the rejection leaves run().
SendReject ==
  /\ hostGone
  /\ pc = "send"
  /\ pending # <<>>
  /\ CASE sendCtx = "try" ->
            /\ pending' = <<[id |-> cur.id,
                             payload |-> UnexpectedErrorPayload(OpError)]>>
            /\ sendCtx' = "inner"
            /\ UNCHANGED pc
       [] sendCtx = "inner" ->
            /\ pending' = <<[id |-> messageId,
                             payload |-> UnexpectedErrorPayload(OpError)]>>
            /\ sendCtx' = "outer"
            /\ UNCHANGED pc
       [] OTHER ->
            /\ pending' = <<>>
            /\ sendCtx' = "none"
            /\ pc' = "crashed"
  /\ UNCHANGED <<inbox, nextId, scriptVars, loggerVars, fnVars, hostGone, cur, messageId, planners, delivered,
                 sent, handled, updates, lastError, lastPlan, awaiting>>

----------------------------------------------------------------------------
(* Specifications *)

WorkerStep ==
  \/ Receive
  \/ HandleUpdateSchema
  \/ HandlePlan
  \/ HandleApiSchema
  \/ HandleIntrospect
  \/ HandleSignature
  \/ HandleSubgraphs
  \/ HandleGetHeapStatistics
  \/ HandleExit
  \/ HandleDefault
  \/ SendResolve

Next ==
  \/ HostSend
  \/ WorkerStep

\* The ops never reject.
Spec == Init /\ [][Next]_vars

\* The script engine's event loop runs a continuation once its op settled.
LiveSpec == Spec /\ WF_vars(WorkerStep)

\* The worker run with the Plan responses recorded in lastPlan.
PlanInit ==
  /\ WorkerStart
  /\ lastPlan = NoPlan
  /\ serviceList = <<>>
  /\ composed = [kind |-> "none"]
  /\ doneCalls = <<>>
  /\ scriptPc = "off"
  /\ LoggerOff
  /\ FnOff

PlanSpec == PlanInit /\ [][Next]_vars

NextWithDrop ==
  \/ Next
  \/ HostDrop
  \/ ReceiveReject
  \/ SendReject

\* The host may drop the channels at any time.
DropSpec == Init /\ [][NextWithDrop]_vars

----------------------------------------------------------------------------
(* The host's awaiters: await_response, its timeout, and the end of the  *)
(* worker as the host sees it                                            *)

\* run() has returned, a rejection has left it, or the context was torn down.
WorkerGone == pc \in {"done", "crashed", "killed"}

\* The host-side timeout of an await_response fires: the awaiter gives up
\* and its correlation id stays in the channel.
HostTimeout ==
  /\ \E i \in DOMAIN awaiting :
       /\ awaiting[i].state = "waiting"
       /\ awaiting' = [awaiting EXCEPT ![i].state = "timedout"]
  /\ UNCHANGED <<inbox, nextId, scriptVars, loggerVars, fnVars, hostGone, pc, cur, messageId,
                 planners, pending, sendCtx, delivered, sent, handled, updates,
                 lastError, lastPlan>>

\* The context ends without run() returning: it crashes, or the host tears
\* it down when the grace period of a shutdown has passed.
WorkerEnds ==
  /\ ~WorkerGone
  /\ \E how \in {"crashed", "killed"} : pc' = how
  /\ UNCHANGED <<inbox, nextId, scriptVars, loggerVars, fnVars, hostGone, cur, messageId,
                 planners, pending, sendCtx, delivered, sent, handled, updates,
                 lastError, lastPlan, awaiting>>

\* Variant of WorkerDied: only the oldest awaiter is told.
WorkerDiedTellsOne ==
  /\ WorkerGone
  /\ \E i \in DOMAIN awaiting : awaiting[i].state = "waiting"
  /\ awaiting' =
       [awaiting EXCEPT
          ![Min({i \in DOMAIN awaiting : awaiting[i].state = "waiting"})].state = "died"]
  /\ hostGone' = TRUE
  /\ UNCHANGED <<inbox, nextId, scriptVars, loggerVars, fnVars, pc, cur, messageId,
                 planners, pending, sendCtx, delivered, sent, handled, updates,
                 lastError, lastPlan>>

\* The host sees that the worker has terminated: every awaiter that still
\* waits returns WorkerDied, and the host's ends of the channels are closed.
WorkerDied ==
  /\ WorkerGone
  /\ \E i \in DOMAIN awaiting : awaiting[i].state = "waiting"
  /\ awaiting' = [i \in DOMAIN awaiting |->
                    IF awaiting[i].state = "waiting"
                      THEN [awaiting[i] EXCEPT !.state = "died"]
                      ELSE awaiting[i]]
  /\ hostGone' = TRUE
  /\ UNCHANGED <<inbox, nextId, scriptVars, loggerVars, fnVars, pc, cur, messageId,
                 planners, pending, sendCtx, delivered, sent, handled, updates,
                 lastError, lastPlan>>

HostNext ==
  \/ Next
  \/ WorkerEnds
  \/ WorkerDied

\* The worker with the host's awaiters: the context may end at any time, and
\* the host notices the end of the worker.
HostSpec == Init /\ [][HostNext]_vars /\ WF_vars(WorkerDied)

TimeoutNext ==
  \/ Next
  \/ HostTimeout

\* The worker with the host's awaiters, each of which may time out.
TimeoutSpec == Init /\ [][TimeoutNext]_vars

----------------------------------------------------------------------------
(* The one-shot composition script: do_compose and composition() *)

NODES_SIZE_LIMIT == 20

MaxNodes == 22

\* An AST node of the library: the subgraph it is of and where its tokens are.
AstNodes(n) == [i \in 1..n |-> [subgraph |-> "accounts", token |-> i]]

\* An error or hint of the library: without nodes or with 0..MaxNodes nodes.
LibItems ==
       {[message |-> "m", code |-> "C"]}
  \cup {[message |-> "m", code |-> "C", nodes |-> AstNodes(n)] : n \in 0..MaxNodes}

\* What composeServices does: it throws, it reports one or two errors
\* (composition() reads the hints of the result before it looks at the
\* errors, so a result with errors may carry a hint), or it succeeds with
\* no, one or two hints.
LibraryResults ==
       {[kind |-> "throws"]}
  \cup {[kind |-> "errors", errors |-> <<a>>] : a \in LibItems}
  \cup {[kind |-> "errors", errors |-> <<a, b>>] : a, b \in LibItems}
  \cup {[kind |-> "errors", errors |-> <<a>>, hints |-> <<b>>] : a, b \in LibItems}
  \cup {[kind |-> "ok", supergraphSdl |-> "supergraph", hints |-> <<>>]}
  \cup {[kind |-> "ok", supergraphSdl |-> "supergraph", hints |-> <<a>>] :
          a \in LibItems}
  \cup {[kind |-> "ok", supergraphSdl |-> "supergraph", hints |-> <<a, b>>] :
          a, b \in LibItems}

\* A service of the list: one whose SDL parses, one whose SDL parse()
\* rejects with a GraphQLError without nodes, one whose SDL it rejects with
\* a GraphQLError that has nodes, and one without a name.
Services ==
  {[name |-> "accounts", sdl |-> "sdl_ok"],
   [name |-> "accounts", sdl |-> "sdl_unparseable"],
   [name |-> "accounts", sdl |-> "sdl_unparseable_nodes"],
   [name |-> "", sdl |-> "sdl_ok"]}

ServiceLists ==
  {<<>>} \cup {<<a>> : a \in Services} \cup {<<a, b>> : a, b \in Services}

getPosition(token) ==
  [start |-> token, end |-> token, line |-> token, column |-> token]

getBuildErrorNode(node) ==
  [subgraph |-> node.subgraph, source |-> "body",
   start |-> getPosition(node.token), end |-> getPosition(node.token)]

\* The nodes and omittedNodesCount composition() emits for one error or hint
\* of the library (a missing nodes list compares false with the limit and
\* maps to nothing).
CapNodes(item) ==
  IF "nodes" \in DOMAIN item /\ Len(item.nodes) >= NODES_SIZE_LIMIT
    THEN [nodes |-> [i \in 1..NODES_SIZE_LIMIT |-> getBuildErrorNode(item.nodes[i])],
          omittedNodesCount |-> Len(item.nodes) - NODES_SIZE_LIMIT]
    ELSE [nodes |-> IF "nodes" \in DOMAIN item
                      THEN [i \in DOMAIN item.nodes |-> getBuildErrorNode(item.nodes[i])]
                      ELSE <<>>,
          omittedNodesCount |-> 0]

\* hints.push({ message, code, nodes, omittedNodesCount }) and the same for
\* errors
Reshape(item) ==
  [message |-> item.message, code |-> item.code] @@ CapNodes(item)

\* The nodes of the GraphQLError parse() throws on an SDL it rejects.
ParseErrorNodes(sdl) ==
  IF sdl = "sdl_unparseable_nodes" THEN AstNodes(2) ELSE <<>>

\* parseTypedefs(source, subgraphName) on an SDL that does not parse: the
\* result it passes to done() before it returns undefined.
ParseFailure(service) ==
  [Err |-> <<[code |-> "INVALID_GRAPHQL",
              message |-> <<"[", service.name, "] - ", "Syntax Error">>,
              nodes |-> IF service.sdl = "sdl_unparseable_nodes"
                          THEN [i \in DOMAIN ParseErrorNodes(service.sdl) |->
                                  [subgraph |-> service.name,
                                   source |-> service.sdl,
                                   start |-> getPosition(ParseErrorNodes(service.sdl)[i].token),
                                   end |-> getPosition(ParseErrorNodes(service.sdl)[i].token)]]
                          ELSE <<[subgraph |-> service.name,
                                  source |-> service.sdl]>>]>>]

\* The done() calls parseTypedefs makes over the services, in order.
RECURSIVE parseTypedefs(_)
parseTypedefs(services) ==
  IF services = <<>> THEN <<>>
  ELSE (IF Head(services).sdl = "sdl_ok" THEN <<>>
                                         ELSE <<ParseFailure(Head(services))>>)
         \o parseTypedefs(Tail(services))

\* Variant of composition: the errors are returned last first.
compositionReversesErrors(services, lib) ==
  IF \E i \in DOMAIN services : services[i].name = ""
    THEN [done |-> <<>>, threw |-> TRUE,
          err |-> "Error: Missing required data structure on service."]
  ELSE IF lib.kind = "throws"
    THEN [done |-> parseTypedefs(services), threw |-> TRUE,
          err |-> "Error: composeServices"]
  ELSE IF lib.kind = "errors"
    THEN [done |-> parseTypedefs(services), threw |-> FALSE,
          result |-> [Err |-> [i \in DOMAIN lib.errors |->
                                 Reshape(lib.errors[Len(lib.errors) + 1 - i])]]]
  ELSE [done |-> parseTypedefs(services), threw |-> FALSE,
        result |-> [Ok |-> [supergraphSdl |-> lib.supergraphSdl,
                            hints |-> [i \in DOMAIN lib.hints |->
                                         Reshape(lib.hints[i])]]]]

\* composition(serviceList): the done() calls made on the way and either
\* the value thrown or the CompositionResult returned.
composition(services, lib) ==
  IF \E i \in DOMAIN services : services[i].name = ""
    THEN [done |-> <<>>, threw |-> TRUE,
          err |-> "Error: Missing required data structure on service."]
  ELSE IF lib.kind = "throws"
    THEN [done |-> parseTypedefs(services), threw |-> TRUE,
          err |-> "Error: composeServices"]
  ELSE IF lib.kind = "errors"
    THEN [done |-> parseTypedefs(services), threw |-> FALSE,
          result |-> [Err |-> [i \in DOMAIN lib.errors |-> Reshape(lib.errors[i])]]]
  ELSE [done |-> parseTypedefs(services), threw |-> FALSE,
        result |-> [Ok |-> [supergraphSdl |-> lib.supergraphSdl,
                            hints |-> [i \in DOMAIN lib.hints |->
                                         Reshape(lib.hints[i])]]]]

\* The script: try { done(composition(serviceList)) } catch (err) { done(...) }
do_compose ==
  /\ scriptPc = "start"
  /\ LET c == composition(serviceList, composed) IN
       doneCalls' = c.done \o
                    <<IF c.threw THEN [Err |-> <<[message |-> c.err]>>]
                                 ELSE c.result>>
  /\ scriptPc' = "end"
  /\ UNCHANGED <<workerVars, loggerVars, fnVars, serviceList, composed>>

\* The host sets serviceList and runs the script; the library's reaction is
\* any of those it can have.
ComposeInit ==
  /\ WorkerInit
  /\ serviceList \in ServiceLists
  /\ composed \in LibraryResults
  /\ doneCalls = <<>>
  /\ scriptPc = "start"
  /\ LoggerOff
  /\ FnOff

ComposeNext == do_compose

ComposeSpec == ComposeInit /\ [][ComposeNext]_vars

----------------------------------------------------------------------------
(* The logger test worker: test_logger_worker.ts *)

MaxCommands == 3

LogKinds == {"Trace", "Debug", "Info", "Warn", "Error"}

CommandKinds == LogKinds \cup {"Exit"}

\* Payload = { kind: CommandKind; message?: string }, and a kind the enum
\* does not have.
Commands ==
       [kind : LogKinds, message : {"m"}]
  \cup [kind : LogKinds \cup {"Exit", "Bogus"}]

\* The function of the logger global a log kind names.
LevelOf(kind) ==
  CASE kind = "Trace" -> "trace"
    [] kind = "Debug" -> "debug"
    [] kind = "Info" -> "info"
    [] kind = "Warn" -> "warn"
    [] OTHER -> "error"

\* logger[level](message): the runtime calls message.toString(), which
\* throws a TypeError when the command has no message.
logFunction(level, payload) ==
  IF "message" \in DOMAIN payload
    THEN [threw |-> FALSE, call |-> [level |-> level, message |-> payload.message]]
    ELSE [threw |-> TRUE,
          err |-> [name |-> "TypeError",
                   message |-> "Cannot read properties of undefined"]]

\* The logger worker before run() has received anything.
LoggerInit ==
  /\ WorkerInit
  /\ serviceList = <<>>
  /\ composed = [kind |-> "none"]
  /\ doneCalls = <<>>
  /\ scriptPc = "off"
  /\ lgInbox = <<>>
  /\ lgNextId = 1
  /\ lgPc = "receive"
  /\ lgCur = NoMsg
  /\ lgPending = <<>>
  /\ lgSent = <<>>
  /\ lgCalls = <<>>
  /\ FnOff

\* The test enqueues a command under a fresh id.
LoggerHostSend ==
  /\ lgNextId <= MaxCommands
  /\ Len(lgInbox) < MaxQueue
  /\ \E c \in Commands :
       lgInbox' = Append(lgInbox, [id |-> lgNextId, payload |-> c])
  /\ lgNextId' = lgNextId + 1
  /\ UNCHANGED <<workerVars, scriptVars, fnVars, lgPc, lgCur, lgPending, lgSent, lgCalls>>

\* const event = await receive(); const { id, payload: { kind, message } } = event;
LoggerReceive ==
  /\ lgPc = "receive"
  /\ lgInbox # <<>>
  /\ lgCur' = Head(lgInbox)
  /\ lgInbox' = Tail(lgInbox)
  /\ lgPc' = "handle"
  /\ UNCHANGED <<workerVars, scriptVars, fnVars, lgNextId, lgPending, lgSent, lgCalls>>

\* catch (e) { logger.error(`an unknown error occured ${e}\n`) }: the loop
\* goes on with the next command.
LoggerCatch(e) ==
  /\ lgCalls' = Append(lgCalls, [level |-> "error",
                                  message |-> <<"an unknown error occured ", e.name>>])
  /\ lgPc' = "receive"
  /\ lgCur' = NoMsg
  /\ UNCHANGED <<lgPending, lgSent>>

\* Variant of LoggerHandleLog: every log kind calls logger.info.
LoggerHandleLogOneLevel ==
  /\ lgPc = "handle"
  /\ lgCur.payload.kind \in LogKinds
  /\ LET r == logFunction("info", lgCur.payload) IN
       IF r.threw
         THEN LoggerCatch(r.err)
         ELSE /\ lgCalls' = Append(lgCalls, r.call)
              /\ lgPending' = <<[id |-> lgCur.id, payload |-> TRUE]>>
              /\ lgPc' = "send"
              /\ UNCHANGED <<lgCur, lgSent>>
  /\ UNCHANGED <<workerVars, scriptVars, fnVars, lgInbox, lgNextId>>

\* case Trace .. Error: logger.<level>(message); await send({ id, payload: true })
LoggerHandleLog ==
  /\ lgPc = "handle"
  /\ lgCur.payload.kind \in LogKinds
  /\ LET r == logFunction(LevelOf(lgCur.payload.kind), lgCur.payload) IN
       IF r.threw
         THEN LoggerCatch(r.err)
         ELSE /\ lgCalls' = Append(lgCalls, r.call)
              /\ lgPending' = <<[id |-> lgCur.id, payload |-> TRUE]>>
              /\ lgPc' = "send"
              /\ UNCHANGED <<lgCur, lgSent>>
  /\ UNCHANGED <<workerVars, scriptVars, fnVars, lgInbox, lgNextId>>

\* case Exit: await send({ id, payload: true }); return
LoggerHandleExit ==
  /\ lgPc = "handle"
  /\ lgCur.payload.kind = "Exit"
  /\ lgPending' = <<[id |-> lgCur.id, payload |-> TRUE]>>
  /\ lgPc' = "send"
  /\ UNCHANGED <<workerVars, scriptVars, fnVars, lgInbox, lgNextId, lgCur, lgSent, lgCalls>>

\* default: logger.error(`unknown message received: ...`)
LoggerHandleDefault ==
  /\ lgPc = "handle"
  /\ lgCur.payload.kind \notin CommandKinds
  /\ lgCalls' = Append(lgCalls, [level |-> "error",
                                  message |-> <<"unknown message received: ", lgCur>>])
  /\ lgPc' = "receive"
  /\ lgCur' = NoMsg
  /\ UNCHANGED <<workerVars, scriptVars, fnVars, lgInbox, lgNextId, lgPending, lgSent>>

\* The awaited send() resolves: the host has the reply; run() returns after
\* the reply to an Exit and goes on after any other.
LoggerSendResolve ==
  /\ lgPc = "send"
  /\ lgSent' = Append(lgSent, lgPending[1])
  /\ lgPending' = <<>>
  /\ IF lgCur.payload.kind = "Exit"
       THEN lgPc' = "done" /\ lgCur' = lgCur
       ELSE lgPc' = "receive" /\ lgCur' = NoMsg
  /\ UNCHANGED <<workerVars, scriptVars, fnVars, lgInbox, lgNextId, lgCalls>>

LoggerNext ==
  \/ LoggerHostSend
  \/ LoggerReceive
  \/ LoggerHandleLog
  \/ LoggerHandleExit
  \/ LoggerHandleDefault
  \/ LoggerSendResolve

LoggerSpec == LoggerInit /\ [][LoggerNext]_vars

----------------------------------------------------------------------------
(* Library functions called on their own: plan, apiSchema, introspect,
   batchIntrospect *)

MaxQueries == 2

\* The request texts plan() is called with.
PlanQueries ==
  {"q_ok", "q_invalid", "q_throws", "q_named", "q_unknown_field",
   "q_unknown_argument", "q_two_anonymous", "q_unknown_field_throws",
   "q_unknown_operation", "q_two_named", "q_unknown_fragment",
   "q_unprintable", "q_named_unprintable"}

\* An SDL every parser takes, one no parser takes, one only graphql's
\* buildSchema rejects (regular schema parsing), and one only the
\* supergraph build rejects.
Sdls == {"sdl_ok", "sdl_not_graphql", "sdl_fed_only", "sdl_not_supergraph"}

\* options: graphqlValidation absent, true or false
ValidationOptions ==
  {[f \in {} |-> f], [graphqlValidation |-> TRUE], [graphqlValidation |-> FALSE]}

IntrospectionQueries == {"i_schema", "i_types", "i_bad"}

QueryLists ==
  UNION {[1..n -> IntrospectionQueries] : n \in 0..MaxQueries}

\* gqlBuildSchema(sdl) / buildGraphqlSchema(sdl): whether it throws, and
\* the GraphQLError it throws.
gqlBuildSchemaThrows(sdl) == sdl \in {"sdl_not_graphql", "sdl_fed_only"}

RegularParseError(sdl) ==
  [name |-> "GraphQLError", message |-> <<"Syntax Error", sdl>>]

\* buildSchema(sdl).toAPISchema().toGraphQLJSSchema() and
\* Supergraph.build(sdl).apiSchema(): whether it throws, and the error.
buildSchemaThrows(sdl) == sdl \in {"sdl_not_graphql", "sdl_not_supergraph"}

SupergraphBuildError(sdl) ==
  [name |-> "GraphQLError", message |-> <<"Invalid supergraph", sdl>>]

\* const validate = options.graphqlValidation ?? true
validate(options) ==
  IF "graphqlValidation" \in DOMAIN options THEN options.graphqlValidation
                                            ELSE TRUE

\* introspectOne(schema, query), the schema being that of the SDL
introspectOne(sdl, query) ==
  IF query = "i_bad"
    THEN [data |-> "undefined",
          errors |-> <<[name |-> "GraphQLError",
                        message |-> <<"Syntax Error", query>>]>>]
    ELSE [data |-> <<"__schema", sdl, query>>, errors |-> <<>>]

\* Array(n).fill(value)
Fill(n, value) == [i \in 1..n |-> value]

\* Variant of batchIntrospect: a schema that cannot be built gives one
\* error result for the whole batch.
batchIntrospectOneError(sdl, queries, options) ==
  IF validate(options) /\ gqlBuildSchemaThrows(sdl)
    THEN <<[errors |-> <<RegularParseError(sdl) @@ [validationError |-> TRUE]>>]>>
  ELSE IF gqlBuildSchemaThrows(sdl)
    THEN <<[errors |-> <<RegularParseError(sdl)>>]>>
  ELSE IF buildSchemaThrows(sdl)
    THEN <<[errors |-> <<SupergraphBuildError(sdl)>>]>>
  ELSE [i \in DOMAIN queries |-> introspectOne(sdl, queries[i])]

batchIntrospect(sdl, queries, options) ==
  IF validate(options) /\ gqlBuildSchemaThrows(sdl)
    THEN Fill(Len(queries),
              [errors |-> <<RegularParseError(sdl) @@ [validationError |-> TRUE]>>])
  ELSE IF gqlBuildSchemaThrows(sdl)
    THEN Fill(Len(queries), [errors |-> <<RegularParseError(sdl)>>])
  ELSE IF buildSchemaThrows(sdl)
    THEN Fill(Len(queries), [errors |-> <<SupergraphBuildError(sdl)>>])
  ELSE [i \in DOMAIN queries |-> introspectOne(sdl, queries[i])]

\* The exported function introspect(sdl, query, options); the name
\* introspect is that of the planner's method in this module.
introspectSdl(sdl, query, options) ==
  IF validate(options) /\ gqlBuildSchemaThrows(sdl)
    THEN [errors |-> <<RegularParseError(sdl) @@ [validationError |-> TRUE]>>]
  ELSE IF buildSchemaThrows(sdl)
    THEN [errors |-> <<SupergraphBuildError(sdl)>>]
  ELSE introspectOne(sdl, query)

apiSchema(sdl, options) ==
  IF validate(options) /\ gqlBuildSchemaThrows(sdl)
    THEN [errors |-> <<RegularParseError(sdl)>>]
  ELSE IF buildSchemaThrows(sdl)
    THEN [errors |-> <<SupergraphBuildError(sdl)>>]
  ELSE [data |-> <<"api schema", sdl>>, errors |-> <<>>]

Calls ==
       [fn : {"plan"}, schema : GoodSchemas, query : PlanQueries]
  \cup [fn : {"apiSchema"}, sdl : Sdls, options : ValidationOptions]
  \cup [fn : {"introspect"}, sdl : Sdls, query : IntrospectionQueries,
        options : ValidationOptions]
  \cup [fn : {"batchIntrospect"}, sdl : Sdls, queries : QueryLists,
        options : ValidationOptions]

Returned(value) == [kind |-> "returned", value |-> value, logged |-> <<>>]

CallPlan ==
  /\ call.fn = "plan"
  /\ ret = NoReturn
  /\ LET r == plan(BridgeQueryPlanner(call.schema).planner, call.query) IN
       ret' = IF r.threw
                THEN [kind |-> "threw", err |-> r.err, logged |-> r.logged]
                ELSE [kind |-> "returned", value |-> r.result,
                      logged |-> r.logged]
  /\ UNCHANGED <<workerVars, scriptVars, loggerVars, call>>

CallApiSchema ==
  /\ call.fn = "apiSchema"
  /\ ret = NoReturn
  /\ ret' = Returned(apiSchema(call.sdl, call.options))
  /\ UNCHANGED <<workerVars, scriptVars, loggerVars, call>>

CallIntrospect ==
  /\ call.fn = "introspect"
  /\ ret = NoReturn
  /\ ret' = Returned(introspectSdl(call.sdl, call.query, call.options))
  /\ UNCHANGED <<workerVars, scriptVars, loggerVars, call>>

CallBatchIntrospect ==
  /\ call.fn = "batchIntrospect"
  /\ ret = NoReturn
  /\ ret' = Returned(batchIntrospect(call.sdl, call.queries, call.options))
  /\ UNCHANGED <<workerVars, scriptVars, loggerVars, call>>

\* One call of one function, with any of its inputs.
FnInit ==
  /\ WorkerInit
  /\ serviceList = <<>>
  /\ composed = [kind |-> "none"]
  /\ doneCalls = <<>>
  /\ scriptPc = "off"
  /\ LoggerOff
  /\ call \in Calls
  /\ ret = NoReturn

FnNext ==
  \/ CallPlan
  \/ CallApiSchema
  \/ CallIntrospect
  \/ CallBatchIntrospect

FnSpec == FnInit /\ [][FnNext]_vars

----------------------------------------------------------------------------
(* Properties *)

Count(s, x) == Cardinality({j \in DOMAIN s : s[j] = x})

\* The position of id x in delivered (0 when it was never delivered).
Pos(x) ==
  IF \E i \in DOMAIN delivered : delivered[i] = x
    THEN CHOOSE i \in DOMAIN delivered : delivered[i] = x
    ELSE 0

IsErrorsPayload(p) == "errors" \in DOMAIN p /\ Len(p.errors) >= 1

\* The kinds whose handler looks the planner up and calls a method of it.
SessionKinds == {"Plan", "ApiSchema", "Introspect", "Signature", "Subgraphs"}

\* run() takes a step out of the handler of cur.
HandlerStep == pc = "handle" /\ pc' # "handle"

\* run() resumes from the send it awaited.
ResumeStep == pc = "send" /\ pc' # "send"

\* The handler's step called send() once, under cur's id.
SendsUnderId ==
  /\ pc' = "send"
  /\ Len(pending') = 1
  /\ pending'[1].id = cur.id

NamesMissingSession ==
  /\ "schemaId" \in DOMAIN cur.payload
  /\ cur.payload.schemaId \notin DOMAIN planners

\* The handler of cur throws: the planner is missing or the library throws.
HandlerThrows ==
  /\ cur.payload.kind \in SessionKinds
  /\ IF cur.payload.schemaId \notin DOMAIN planners
       THEN TRUE
       ELSE /\ cur.payload.kind = "Plan"
            /\ plan(planners[cur.payload.schemaId], cur.payload.query).threw

ThrownByHandler ==
  IF cur.payload.schemaId \notin DOMAIN planners
    THEN MissingPlanner
    ELSE plan(planners[cur.payload.schemaId], cur.payload.query).err

Wraps(p, e) ==
  /\ "errors" \in DOMAIN p
  /\ Len(p.errors) = 1
  /\ p.errors[1].name = e.name
  /\ p.errors[1].message = e.message
  /\ p.errors[1].extensions.exception.stacktrace = toString(e)

\* Running until run() has returned or a rejection has left it.  The code
\* has no state between the two: run() ending is the end of the worker.
WorkerState == IF pc \in {"done", "crashed"} THEN "Terminated" ELSE "Running"

\* C1 as stated: every received request of a recognised kind (Exit
\* included) has exactly one response under its id when its iteration ends.
C1_EveryKnownKindAnswered ==
  [][(pc \in {"handle", "send"} /\ pc' \in {"receive", "done"}
        /\ cur.payload.kind \in KnownKinds)
       => Count(sent', cur.id) = 1]_vars

\* C1 amended: every received request of a recognised kind other than Exit
\* is eventually answered under its id, exactly once: its iteration ends,
\* it ends with one response under the id handed to the host, and no id
\* is ever answered twice.
C1_ExactlyOneResponse ==
  /\ [][(pc \in {"handle", "send"} /\ pc' \notin {"handle", "send"}
           /\ cur.payload.kind \in KnownKinds \ {"Exit"})
          => (pc' = "receive" /\ Count(sent', cur.id) = 1)]_vars
  /\ [](\A i \in 1..MaxRequests : Count(sent, i) <= 1)
  /\ (pc \in {"handle", "send"} /\ cur.payload.kind \in KnownKinds \ {"Exit"})
       ~> (pc = "receive")

C1_Witness ==
  /\ pc = "receive"
  /\ Len(delivered) >= 2
  /\ \A i \in DOMAIN delivered : Count(sent, delivered[i]) = 1

\* C2: when the handler of a message throws, the inner catch sends, under
\* the id of that message, an errors list that wraps the thrown value, and
\* the iteration ends with that response handed to the host.
C2_ThrowIsAnswered ==
  [][/\ (HandlerStep /\ HandlerThrows)
          => (SendsUnderId /\ Wraps(pending'[1].payload, ThrownByHandler))
     /\ (ResumeStep /\ sendCtx = "inner")
          => (pc' = "receive" /\ sent' = Append(sent, cur.id))]_vars

C2_Witness ==
  /\ pc = "send"
  /\ sendCtx = "inner"
  /\ cur.payload.kind = "Plan"
  /\ cur.payload.schemaId \in DOMAIN planners
  /\ Wraps(pending[1].payload, PlannerThrow)

\* C3 as stated: a request of any kind (UpdateSchema aside, which creates
\* the session) that names a session that does not exist is answered
\* with an errors payload under its id.
C3_AnyKindOnMissingSession ==
  [][(HandlerStep /\ NamesMissingSession /\ cur.payload.kind # "UpdateSchema")
       => (SendsUnderId /\ IsErrorsPayload(pending'[1].payload))]_vars

\* C3 amended: a Plan, ApiSchema, Introspect, Signature or Subgraphs request
\* that names a session that does not exist is answered with an errors
\* payload under its id, and run() goes back to receive(); an Exit that
\* names such a session sends nothing and changes no session, and run()
\* returns exactly when no session exists.
C3_MissingSessionIsAnswered ==
  [][/\ (HandlerStep /\ NamesMissingSession /\ cur.payload.kind \in SessionKinds)
          => (SendsUnderId /\ IsErrorsPayload(pending'[1].payload)
                /\ planners' = planners)
     /\ (ResumeStep /\ NamesMissingSession /\ cur.payload.kind \in SessionKinds)
          => (pc' = "receive" /\ sent' = Append(sent, cur.id))
     /\ (HandlerStep /\ NamesMissingSession /\ cur.payload.kind = "Exit")
          => /\ pending' = pending
             /\ sent' = sent
             /\ planners' = planners
             /\ pc' = IF DOMAIN planners = {} THEN "done" ELSE "receive"]_vars

\* A request for a session that was created and then removed by Exit is
\* being answered with errors, while another session exists.
C3_Witness ==
  /\ pc = "send"
  /\ cur.payload.kind \in SessionKinds
  /\ updates[cur.payload.schemaId] = "built"
  /\ cur.payload.schemaId \notin DOMAIN planners
  /\ DOMAIN planners # {}
  /\ IsErrorsPayload(pending[1].payload)

\* C4: an UpdateSchema whose planner construction fails leaves the sessions
\* map as it was and is answered with errors; a Plan for a schema id for
\* which no UpdateSchema has succeeded is answered with errors under its
\* id, and run() goes back to receive().
C4_FailedUpdateCreatesNoSession ==
  [][/\ (HandlerStep /\ cur.payload.kind = "UpdateSchema"
           /\ BridgeQueryPlanner(cur.payload.schema).threw)
          => (planners' = planners /\ SendsUnderId
                /\ IsErrorsPayload(pending'[1].payload))
     /\ (HandlerStep /\ cur.payload.kind = "Plan"
           /\ updates[cur.payload.schemaId] # "built")
          => (SendsUnderId /\ IsErrorsPayload(pending'[1].payload))
     /\ (ResumeStep /\ cur.payload.kind = "Plan"
           /\ updates[cur.payload.schemaId] # "built")
          => (pc' = "receive" /\ sent' = Append(sent, cur.id))]_vars

\* A Plan for a schema id whose only UpdateSchema failed is being answered.
C4_Witness ==
  /\ pc = "send"
  /\ cur.payload.kind = "Plan"
  /\ updates[cur.payload.schemaId] = "failed"
  /\ sendCtx = "inner"
  /\ IsErrorsPayload(pending[1].payload)

\* C5 as stated: the response to an UpdateSchema whose SDL the library
\* rejects is an errors payload whose error objects all carry
\* validationError: true.
C5_RejectedSdlIsValidationError ==
  (pc = "send" /\ cur.payload.kind = "UpdateSchema"
     /\ cur.payload.schema \in BadSchemas)
    => \A i \in DOMAIN pending :
         /\ IsErrorsPayload(pending[i].payload)
         /\ \A j \in DOMAIN pending[i].payload.errors :
              pending[i].payload.errors[j].validationError = TRUE

\* C6: at most one request is inside run() at a time: a request is
\* delivered only when every earlier one has run to its end, at most one
\* send() is unsettled, and none is while run() waits in receive().
C6_OneRequestAtATime ==
  /\ Len(pending) <= 1
  /\ (pc \in {"receive", "handle", "done"} => pending = <<>>)
  /\ Len(delivered) = handled + (IF pc \in {"handle", "send"} THEN 1 ELSE 0)

\* The second request is handled after the first was answered, with a third
\* one waiting in the channel.
C6_Witness ==
  /\ pc = "send"
  /\ Len(delivered) = 2
  /\ sent = <<delivered[1]>>
  /\ inbox # <<>>

C8_ExitKeepsWorkerAlive ==
  [][/\ (HandlerStep /\ cur.payload.kind = "Exit"
           /\ DOMAIN planners \ {cur.payload.schemaId} # {})
          => /\ pc' = "receive"
             /\ DOMAIN planners' = DOMAIN planners \ {cur.payload.schemaId}
     /\ (HandlerStep /\ cur.payload.kind = "GetHeapStatistics")
          => /\ SendsUnderId
             /\ {"heapTotal", "heapUsed", "external"} \subseteq
                  DOMAIN pending'[1].payload
             /\ "errors" \notin DOMAIN pending'[1].payload
             /\ pending'[1].payload.heapTotal = memoryUsage.heapTotal
             /\ pending'[1].payload.heapUsed = memoryUsage.heapUsed
             /\ pending'[1].payload.external = memoryUsage.external
     /\ (ResumeStep /\ cur.payload.kind = "GetHeapStatistics")
          => (pc' = "receive" /\ sent' = Append(sent, cur.id))]_vars

\* GetHeapStatistics is being answered after one of two sessions exited.
C8_Witness ==
  /\ pc = "send"
  /\ cur.payload.kind = "GetHeapStatistics"
  /\ DOMAIN planners # {}
  /\ \E k \in SchemaIds : updates[k] = "built" /\ k \notin DOMAIN planners

\* C9: the Exit that removes the last session makes run() return, and after
\* that nothing is received and nothing is sent.
C9_LastExitTerminates ==
  [][/\ (HandlerStep /\ cur.payload.kind = "Exit"
           /\ DOMAIN planners = {cur.payload.schemaId})
          => (pc' = "done" /\ DOMAIN planners' = {})
     /\ (pc = "done")
          => (pc' = "done" /\ delivered' = delivered /\ sent' = sent
                /\ pending' = pending)]_vars

\* run() returned on the Exit of the last session after it had answered
\* requests, and a request enqueued since stays in the channel.
C9_Witness ==
  /\ pc = "done"
  /\ cur.payload.kind = "Exit"
  /\ updates[cur.payload.schemaId] = "built"
  /\ Len(sent) >= 2
  /\ inbox # <<>>

\* C10 as stated: the worker leaves Running on any Exit.
C10_AnyExitLeavesRunning ==
  [][(HandlerStep /\ cur.payload.kind = "Exit")
       => WorkerState' # "Running"]_vars

\* C10 amended: the worker leaves Running exactly on an Exit after which
\* no session remains, or when the send of the outer catch rejects and the
\* rejection leaves run().
C10_LeavesRunning ==
  [][(WorkerState = "Running" /\ WorkerState' # "Running")
       <=> \/ (HandlerStep /\ cur.payload.kind = "Exit"
                 /\ DOMAIN planners \subseteq {cur.payload.schemaId})
           \/ (ResumeStep /\ sendCtx = "outer" /\ sent' = sent)]_vars

\* run() returned on an Exit after an earlier Exit had left it running.
C10_Witness ==
  /\ WorkerState = "Terminated"
  /\ cur.payload.kind = "Exit"
  /\ Len(delivered) = 4
  /\ \A k \in SchemaIds : updates[k] = "built"

\* C11: once run() has returned or a rejection has left it, the worker
\* stays terminated: whatever the host enqueues or drops afterwards, no
\* request is received, no send is made or settled, and neither the
\* sessions map nor the loop's locals change.
C11_TerminatedIsAbsorbing ==
  [][WorkerState = "Terminated"
       => /\ WorkerState' = "Terminated"
          /\ pc' = pc
          /\ delivered' = delivered
          /\ sent' = sent
          /\ pending' = pending
          /\ planners' = planners
          /\ cur' = cur
          /\ handled' = handled]_vars

\* run() has returned, an UpdateSchema waits in the channel and the host
\* has dropped its ends.
C11_Witness ==
  /\ pc = "done"
  /\ inbox # <<>>
  /\ inbox[1].payload.kind = "UpdateSchema"
  /\ hostGone

\* C12 as stated: no throwable raised while a message is being handled
\* leaves run(): the worker is never ended by a throwable with the
\* message still in hand.
C12_NoThrowableEscapes == ~(pc = "crashed" /\ cur # NoMsg)

\* The request in hand is one that a session answers without errors.
ValidRequest ==
  \/ cur.payload.kind \in {"ApiSchema", "Introspect", "Signature", "Subgraphs"}
  \/ cur.payload.kind = "Plan" /\ cur.payload.query = "q_ok"
  \/ cur.payload.kind = "UpdateSchema" /\ cur.payload.schema \in GoodSchemas

\* C13: an error Response leaves the worker usable: the step that answers
\* with errors (failed UpdateSchema, Plan returning errors, handler that
\* threw) changes no session, run() goes back to receive() once the
\* response is out, and a valid request that follows on the same session
\* is answered from the try block with a payload that is not an error.
C13_ErrorsAreRecoverable ==
  [][/\ (HandlerStep /\ pc' = "send" /\ IsErrorsPayload(pending'[1].payload))
          => planners' = planners
     /\ (ResumeStep /\ IsErrorsPayload(pending[1].payload))
          => (pc' = "receive" /\ planners' = planners /\ sent' = Append(sent, cur.id))
     /\ (HandlerStep /\ lastError # NoId /\ ValidRequest
           /\ cur.payload.schemaId = lastError)
          => /\ lastError \in DOMAIN planners
             /\ SendsUnderId
             /\ sendCtx' = "try"
             /\ ~IsErrorsPayload(pending'[1].payload)]_vars

\* A Plan is being answered with a query plan on the session whose request
\* before it was answered with errors.
C13_Witness ==
  /\ pc = "send"
  /\ sendCtx = "try"
  /\ cur.payload.kind = "Plan"
  /\ cur.payload.query = "q_ok"
  /\ lastError = cur.payload.schemaId
  /\ "data" \in DOMAIN pending[1].payload

\* C14: a request of an unrecognised kind gets no answer of its own and
\* does no harm: its step sends nothing, leaves the sessions map as it
\* was and takes run() back to receive() with the requests that wait in
\* the channel still there, the next of them being the next one handled.
C14_UnknownKindIsSkipped ==
  [][(HandlerStep /\ cur.payload.kind \notin KnownKinds)
       => /\ pc' = "receive"
          /\ planners' = planners
          /\ pending' = <<>>
          /\ sent' = sent
          /\ Count(sent', cur.id) = 0
          /\ inbox' = inbox]_vars

\* The first request was left unanswered with the worker still running and
\* no session in the map, which only an unrecognised kind does; the
\* UpdateSchema after it is being answered with the acknowledgement.
C14_Witness ==
  /\ pc = "send"
  /\ delivered = <<1, 2>>
  /\ sent = <<>>
  /\ cur.payload.kind = "UpdateSchema"
  /\ pending[1].id = 2
  /\ pending[1].payload = UpdateOk

HasValidationFlag(p) ==
  \A j \in DOMAIN p.errors :
    /\ "validationError" \in DOMAIN p.errors[j]
    /\ p.errors[j].validationError \in BOOLEAN

\* C16 as stated: on each path on which the worker itself builds the
\* error objects (failed UpdateSchema, inner catch of a handler that
\* threw, outer catch) every error object of the payload being sent has a
\* boolean validationError field.
C16_EveryErrorHasValidationFlag ==
  \A i \in DOMAIN pending :
    (/\ IsErrorsPayload(pending[i].payload)
     /\ \/ sendCtx \in {"inner", "outer"}
        \/ cur.payload.kind = "UpdateSchema")
      => HasValidationFlag(pending[i].payload)

\* C17 as stated: a Plan whose query is invalid input, sent to an existing
\* session, is answered with error objects that all carry
\* validationError: true.
C17_InvalidQueryIsValidationError ==
  (/\ pc = "send"
   /\ cur.payload.kind = "Plan"
   /\ cur.payload.query = "q_invalid"
   /\ cur.payload.schemaId \in DOMAIN planners)
    => \A i \in DOMAIN pending :
         /\ IsErrorsPayload(pending[i].payload)
         /\ \A j \in DOMAIN pending[i].payload.errors :
              /\ "validationError" \in DOMAIN pending[i].payload.errors[j]
              /\ pending[i].payload.errors[j].validationError = TRUE

\* The error object the translator makes of one thrown item.
Translated(e) ==
  IF isGraphQLErrorExt(e) THEN intoSerializableGraphQLErrorExt(e)
                          ELSE intoSerializableError(e)

\* The errors list is the translation of the thrown items, one entry per
\* item and in their order.
TranslationOf(errors, items) ==
  /\ Len(errors) = Len(items)
  /\ \A i \in DOMAIN items : errors[i] = Translated(items[i])

\* C18 as stated: the errors list sent for a throwable caught from a
\* handler is its translation: for a failed UpdateSchema that of what the
\* construction threw (one item, or the items of the array), for a handler
\* that threw into the inner catch that of the value it threw.
C18_EveryThrowableIsTranslated ==
  (pc = "send" /\ pending # <<>>)
    => /\ (/\ sendCtx = "try"
            /\ cur.payload.kind = "UpdateSchema"
            /\ BridgeQueryPlanner(cur.payload.schema).threw)
           => TranslationOf(pending[1].payload.errors,
                            BridgeQueryPlanner(cur.payload.schema).err.items)
       /\ (sendCtx = "inner" /\ HandlerThrows)
           => /\ IsErrorsPayload(pending[1].payload)
              /\ TranslationOf(pending[1].payload.errors, <<ThrownByHandler>>)

\* C19: an exception with causes chained under it is serialised to one
\* error object, made of the top exception, whose causes list has one
\* entry per cause, in order, each with the message and extensions of its
\* cause and no causes of its own: the nesting is one level deep.
C19_CausesSurviveOneLevel ==
  (/\ pc = "send"
   /\ sendCtx = "try"
   /\ cur.payload.kind = "UpdateSchema"
   /\ BridgeQueryPlanner(cur.payload.schema).threw)
    => LET thrown == BridgeQueryPlanner(cur.payload.schema).err.items
           errors == pending[1].payload.errors
       IN \A i \in DOMAIN thrown :
            (isGraphQLErrorExt(thrown[i]) /\ "causes" \in DOMAIN thrown[i])
              => /\ errors[i].name = thrown[i].name
                 /\ errors[i].message = thrown[i].message
                 /\ "causes" \in DOMAIN errors[i]
                 /\ Len(errors[i].causes) = Len(thrown[i].causes)
                 /\ \A j \in DOMAIN thrown[i].causes :
                      /\ errors[i].causes[j].message = thrown[i].causes[j].message
                      /\ errors[i].causes[j].extensions = thrown[i].causes[j].extensions
                      /\ "causes" \notin DOMAIN errors[i].causes[j]

\* The answer to an UpdateSchema whose construction threw an error with
\* one cause is being sent, the cause nested in the outer object.
C19_Witness ==
  /\ pc = "send"
  /\ cur.payload.kind = "UpdateSchema"
  /\ cur.payload.schema = "invalid"
  /\ Len(InvalidGraphQL.causes) = 1
  /\ Len(pending[1].payload.errors[1].causes) = 1
  /\ pending[1].payload.errors[1].message = InvalidGraphQL.message

\* The errors or hints of a result passed to done().
ItemsOf(result) ==
  IF "Err" \in DOMAIN result THEN result.Err ELSE result.Ok.hints

\* The node list the library gave for an item (none counts as empty).
OriginalNodes(item) == IF "nodes" \in DOMAIN item THEN item.nodes ELSE <<>>

\* e emits the first nodes of the original list, at most the limit of
\* them and in order, and counts the rest as omitted.
CappedFrom(e, original) ==
  /\ "nodes" \in DOMAIN e
  /\ "omittedNodesCount" \in DOMAIN e
  /\ Len(e.nodes) <= NODES_SIZE_LIMIT
  /\ Len(e.nodes) <= Len(original)
  /\ \A j \in DOMAIN e.nodes : e.nodes[j] = getBuildErrorNode(original[j])
  /\ e.omittedNodesCount = Len(original) - Len(e.nodes)
  /\ (Len(original) <= NODES_SIZE_LIMIT => e.omittedNodesCount = 0)

\* C20 as stated: every error and every hint of a result of the
\* composition script that comes with a nodes list has at most 20 nodes and
\* an omittedNodesCount; for the errors and hints that composition()
\* reshapes these are the first nodes of the library's list, in order, and
\* the count is the number of nodes left out; for the error of a subgraph
\* whose SDL does not parse they are those of the parse error.
C20_NodesAreCapped ==
  scriptPc = "end"
    => /\ \A c \in DOMAIN doneCalls :
            \A i \in DOMAIN ItemsOf(doneCalls[c]) :
              LET e == ItemsOf(doneCalls[c])[i] IN
                "nodes" \in DOMAIN e
                  => /\ Len(e.nodes) <= NODES_SIZE_LIMIT
                     /\ "omittedNodesCount" \in DOMAIN e
                     /\ e.omittedNodesCount >= 0
       /\ ~composition(serviceList, composed).threw
            => LET out == ItemsOf(doneCalls[Len(doneCalls)])
                   lib == IF composed.kind = "errors" THEN composed.errors
                                                      ELSE composed.hints
               IN /\ Len(out) = Len(lib)
                  /\ \A i \in DOMAIN lib : CappedFrom(out[i], OriginalNodes(lib[i]))

\* C21: sessions coexist and are changed only by their own UpdateSchema and
\* Exit.  The map changes only in the handler of an UpdateSchema or an Exit;
\* that handler leaves every entry but the one it names as it was; a
\* successful UpdateSchema(k) leaves k in the map and Exit(k) leaves it out.
\* Every other request kind, answered with a result or with the error of a
\* throw, leaves the map as it was.
C21_SessionsChangeOnlyByOwnRequest ==
  [][/\ (planners' # planners)
          => (HandlerStep /\ cur.payload.kind \in {"UpdateSchema", "Exit"})
     /\ (HandlerStep /\ cur.payload.kind \in {"UpdateSchema", "Exit"})
          => \A k \in SchemaIds \ {cur.payload.schemaId} :
               /\ (k \in DOMAIN planners') <=> (k \in DOMAIN planners)
               /\ (k \in DOMAIN planners) => (planners'[k] = planners[k])
     /\ (HandlerStep /\ cur.payload.kind = "UpdateSchema"
           /\ ~BridgeQueryPlanner(cur.payload.schema).threw)
          => (cur.payload.schemaId \in DOMAIN planners')
     /\ (HandlerStep /\ cur.payload.kind = "Exit")
          => (cur.payload.schemaId \notin DOMAIN planners')]_vars

\* Two sessions built from different SDL texts coexist while the error of a
\* Plan whose planner threw is being sent.
C21_Witness ==
  /\ pc = "send"
  /\ sendCtx = "inner"
  /\ cur.payload.kind = "Plan"
  /\ DOMAIN planners = SchemaIds
  /\ planners[1] # planners[2]

AwaitersIn(state) == {i \in DOMAIN awaiting : awaiting[i].state = state}

\* C23: when the worker terminates (run() returned, the context crashed or
\* was torn down), every host task that still awaits a Response receives
\* WorkerDied: a step in which an awaiter receives WorkerDied happens only
\* after the worker terminated and gives it to every awaiter that still
\* waits, and once the worker has terminated no awaiter is left waiting in
\* the end.
C23_AwaitersLearnOfWorkerDeath ==
  /\ [][(\E i \in DOMAIN awaiting :
            awaiting[i].state # "died" /\ awaiting'[i].state = "died")
          => /\ WorkerGone
             /\ DOMAIN awaiting' = DOMAIN awaiting
             /\ \A i \in DOMAIN awaiting :
                  awaiting'[i].state = IF awaiting[i].state = "waiting"
                                         THEN "died" ELSE awaiting[i].state]_vars
  /\ WorkerGone ~> (AwaitersIn("waiting") = {})

\* run() returned on an Exit while a request was still in the channel: the
\* awaiter of the Exit and the awaiter of that request received WorkerDied,
\* and an earlier awaiter had its answer.
C23_Witness ==
  /\ pc = "done"
  /\ inbox # <<>>
  /\ AwaitersIn("answered") # {}
  /\ Cardinality(AwaitersIn("died")) >= 2
  /\ AwaitersIn("waiting") = {}

\* C24: a Response under a correlation id that no awaiter waits for any
\* more (its await_response timed out) is discarded: the step that hands it
\* to the host changes no awaiter, and a Response under an id that is
\* awaited changes the awaiter of that id only.
C24_LateResponseIsDiscarded ==
  [][(Len(sent') = Len(sent) + 1)
       => LET id == sent'[Len(sent')] IN
          /\ DOMAIN awaiting' = DOMAIN awaiting
          /\ (\A i \in DOMAIN awaiting :
                 awaiting[i].id = id => awaiting[i].state # "waiting")
               => awaiting' = awaiting
          /\ \A i \in DOMAIN awaiting :
               awaiting[i].id # id => awaiting'[i] = awaiting[i]]_vars

\* The response to the first request arrived after its await had timed out
\* and while the awaiter of the second request was waiting.
C24_Witness ==
  /\ Len(awaiting) >= 2
  /\ awaiting[1].state = "timedout"
  /\ awaiting[2].state = "waiting"
  /\ sent = <<awaiting[1].id>>

\* C25: the correlation ids of the requests that await a reply are pairwise
\* distinct, and so are the ids of the requests in the channel.
C25_InFlightIdsAreDistinct ==
  /\ \A i, j \in AwaitersIn("waiting") : awaiting[i].id = awaiting[j].id => i = j
  /\ \A i, j \in DOMAIN inbox : inbox[i].id = inbox[j].id => i = j
  /\ \A i \in DOMAIN inbox : \E j \in DOMAIN awaiting : awaiting[j].id = inbox[i].id

\* Three requests await their replies at once, one of them in the channel
\* and one being handled, after an earlier one was answered.
C25_Witness ==
  /\ Cardinality(AwaitersIn("waiting")) = 3
  /\ AwaitersIn("answered") # {}
  /\ inbox # <<>>
  /\ pc = "handle"

\* C26: a failed UpdateSchema(k) leaves the sessions map exactly as it was;
\* a successful one leaves under k a planner of the schema it carried,
\* whether or not k had a planner; and a Plan for k is served by the planner
\* the map holds for k, which after a failed UpdateSchema(k) is the one k
\* had before.
C26_FailedUpdateKeepsPlanner ==
  [][/\ (HandlerStep /\ cur.payload.kind = "UpdateSchema"
           /\ BridgeQueryPlanner(cur.payload.schema).threw)
          => planners' = planners
     /\ (HandlerStep /\ cur.payload.kind = "UpdateSchema"
           /\ ~BridgeQueryPlanner(cur.payload.schema).threw)
          => /\ cur.payload.schemaId \in DOMAIN planners'
             /\ planners'[cur.payload.schemaId].schemaString = cur.payload.schema
     /\ (HandlerStep /\ cur.payload.kind = "Plan" /\ cur.payload.query = "q_ok"
           /\ cur.payload.schemaId \in DOMAIN planners)
          => /\ SendsUnderId
             /\ "data" \in DOMAIN pending'[1].payload
             /\ pending'[1].payload.data.queryPlan =
                  <<planners[cur.payload.schemaId].schemaString, cur.payload.query>>]_vars

\* An UpdateSchema has put a planner of a second schema in the place of the
\* one its session had, right after a request for that session was answered
\* with errors, and a Plan for the session waits in the channel.
C26_Witness ==
  /\ pc = "send"
  /\ cur.payload.kind = "UpdateSchema"
  /\ cur.payload.schema = "sdlB"
  /\ lastError = cur.payload.schemaId
  /\ planners[cur.payload.schemaId].schemaString = "sdlB"
  /\ inbox # <<>>
  /\ inbox[1].payload.kind = "Plan"
  /\ inbox[1].payload.schemaId = cur.payload.schemaId

\* C27: run() returns only from the Exit branch and only when the map is
\* empty after the named session was deleted.  An Exit that names a session
\* that does not exist leaves the map as it was: the loop goes on when other
\* sessions exist and run() returns when none does.
C27_ReturnsOnlyOnExitWithNoSession ==
  [][/\ (pc # "done" /\ pc' = "done")
          => /\ pc = "handle"
             /\ cur.payload.kind = "Exit"
             /\ DOMAIN planners' = {}
             /\ DOMAIN planners \subseteq {cur.payload.schemaId}
     /\ (HandlerStep /\ cur.payload.kind = "Exit"
           /\ cur.payload.schemaId \notin DOMAIN planners)
          => /\ planners' = planners
             /\ (DOMAIN planners # {}) => pc' = "receive"
             /\ (DOMAIN planners = {}) => pc' = "done"]_vars

\* run() returned on an Exit although no UpdateSchema had succeeded: the
\* only one there was had failed.
C27_Witness ==
  /\ pc = "done"
  /\ cur.payload.kind = "Exit"
  /\ \A k \in SchemaIds : updates[k] # "built"
  /\ updates[cur.payload.schemaId] = "failed"
  /\ sent = <<1>>

\* C28: handling an Exit sends no Response: the handler makes no send()
\* call and hands nothing to the host, when run() returns and when the loop
\* goes on with the sessions that remain.
C28_ExitIsNeverAnswered ==
  [][(HandlerStep /\ cur.payload.kind = "Exit")
       => /\ pc' \in {"receive", "done"}
          /\ pending' = pending
          /\ pending = <<>>
          /\ sent' = sent
          /\ Count(sent, cur.id) = 0]_vars

\* Two sessions were built and both were exited: the first Exit left the
\* loop running, the second made run() return, and the two responses the
\* host has are those of the two UpdateSchema requests.
C28_Witness ==
  /\ pc = "done"
  /\ delivered = <<1, 2, 3, 4>>
  /\ sent = <<1, 2>>
  /\ pending = <<>>
  /\ \A k \in SchemaIds : updates[k] = "built"

\* C29: the id of every response run() has passed to send() is the id of
\* the message received in the same iteration or the empty initial value.
\* The remembered messageId is empty while receive() is awaited and the id of
\* the received message after it, so that a response of the outer catch
\* carries the id of the current request when receive() had resolved and
\* never the id of an earlier request.
C29_ResponseIdIsOfThisIteration ==
  /\ \A i \in DOMAIN pending : pending[i].id \in {cur.id, NoId}
  /\ messageId = cur.id
  /\ (pc = "receive") => (messageId = NoId)
  /\ (sendCtx = "outer" /\ pending # <<>>) => (pending[1].id = cur.id)

\* In the second iteration send() rejected in the try block and in the
\* inner catch, and the outer catch sends its error under the id of the
\* request of this iteration.
C29_Witness ==
  /\ pc = "send"
  /\ sendCtx = "outer"
  /\ cur.id = 2
  /\ pending = <<[id |-> 2, payload |-> UnexpectedErrorPayload(OpError)]>>
  /\ sent = <<1>>

\* The replies to the command with the given id that the host has.
RepliesTo(replies, id) == {i \in DOMAIN replies : replies[i].id = id}

\* The logger worker ends the iteration of lgCur.
LoggerIterationEnds ==
  lgPc \in {"handle", "send"} /\ lgPc' \in {"receive", "done"}

\* C30 as stated: every command of kind Trace, Debug, Info, Warn, Error or
\* Exit has exactly one reply {id, payload: true} when its iteration ends.
C30_EveryCommandIsAnswered ==
  [][(LoggerIterationEnds /\ lgCur.payload.kind \in CommandKinds)
       => /\ Cardinality(RepliesTo(lgSent', lgCur.id)) = 1
          /\ \A i \in RepliesTo(lgSent', lgCur.id) : lgSent'[i].payload = TRUE]_vars

\* C30 amended: every Exit command and every command of a log kind that
\* carries a message has exactly one reply {id, payload: true} when its
\* iteration ends; for a log kind the logger function of the same level is
\* called once with the message before send() is called and not again; for
\* Exit run() returns in the step in which the reply is handed to the host,
\* and it returns on no other command.
C30_CommandWithMessageIsAnswered ==
  [][/\ (LoggerIterationEnds
           /\ \/ lgCur.payload.kind = "Exit"
              \/ lgCur.payload.kind \in LogKinds /\ "message" \in DOMAIN lgCur.payload)
          => /\ Cardinality(RepliesTo(lgSent', lgCur.id)) = 1
             /\ \A i \in RepliesTo(lgSent', lgCur.id) : lgSent'[i].payload = TRUE
     /\ (lgPc = "handle" /\ lgPc' # "handle"
           /\ lgCur.payload.kind \in LogKinds /\ "message" \in DOMAIN lgCur.payload)
          => /\ lgCalls' = Append(lgCalls, [level |-> LevelOf(lgCur.payload.kind),
                                            message |-> lgCur.payload.message])
             /\ lgPending' = <<[id |-> lgCur.id, payload |-> TRUE]>>
             /\ lgSent' = lgSent
             /\ lgPc' = "send"
     /\ (lgPc = "send") => (lgCalls' = lgCalls)
     /\ (lgPc # "done" /\ lgPc' = "done")
          => /\ lgCur.payload.kind = "Exit"
             /\ lgSent' = Append(lgSent, [id |-> lgCur.id, payload |-> TRUE])]_vars

\* run() has returned on the Exit that came third: the Warn command with a
\* message and the Exit have their replies, and the command without a
\* message in between has none.
C30_Witness ==
  /\ lgPc = "done"
  /\ lgCur.id = 3
  /\ lgSent = <<[id |-> 1, payload |-> TRUE], [id |-> 3, payload |-> TRUE]>>
  /\ Len(lgCalls) = 2
  /\ lgCalls[1] = [level |-> "warn", message |-> "m"]

----------------------------------------------------------------------------
(* One-shot scripts *)

\* C31 as stated: when one execution of the do_compose script has ended,
\* done() has been called exactly once: never zero times and never more than
\* once, also when the SDL of a subgraph fails to parse.
C31_ExactlyOneDone ==
  (scriptPc = "end") => (Len(doneCalls) = 1)

\* The error or hint e is the reshaped form of the library's item: its
\* message and code, the first nodes of the item up to the limit, the count
\* of the nodes left out, and no other field.
ReshapedFrom(e, item) ==
  /\ DOMAIN e = {"code", "message", "nodes", "omittedNodesCount"}
  /\ e.message = item.message
  /\ e.code = item.code
  /\ CappedFrom(e, OriginalNodes(item))
  /\ Len(e.nodes) = IF Len(OriginalNodes(item)) >= NODES_SIZE_LIMIT
                      THEN NODES_SIZE_LIMIT ELSE Len(OriginalNodes(item))

\* C32: composition() returns exactly one of Ok and Err.  For a service
\* list that passes the checks and a library call that returns, the value
\* the script hands to done() last is the return value: when the library
\* reports errors it is an Err and nothing else, with the reshaped form of
\* the i-th library error at place i, and no hint of the library is in it;
\* otherwise it is an Ok and nothing else, with the supergraph SDL and the
\* reshaped form of the i-th library hint at place i.
C32_ResultIsOkOrErr ==
  (/\ scriptPc = "end"
   /\ \A i \in DOMAIN serviceList : serviceList[i].name # ""
   /\ composed.kind # "throws")
    => LET r == doneCalls[Len(doneCalls)] IN
         /\ ("Ok" \in DOMAIN r) # ("Err" \in DOMAIN r)
         /\ composed.kind = "errors"
              => /\ DOMAIN r = {"Err"}
                 /\ Len(r.Err) = Len(composed.errors)
                 /\ \A i \in DOMAIN composed.errors :
                      ReshapedFrom(r.Err[i], composed.errors[i])
         /\ composed.kind = "ok"
              => /\ DOMAIN r = {"Ok"}
                 /\ DOMAIN r.Ok = {"supergraphSdl", "hints"}
                 /\ r.Ok.supergraphSdl = composed.supergraphSdl
                 /\ Len(r.Ok.hints) = Len(composed.hints)
                 /\ \A i \in DOMAIN composed.hints :
                      ReshapedFrom(r.Ok.hints[i], composed.hints[i])

\* The script has ended on a library result with one error of more nodes
\* than the limit and one hint: the result is an Err of that one error.
C32_Witness ==
  /\ scriptPc = "end"
  /\ Len(serviceList) = 1
  /\ serviceList[1].name # ""
  /\ composed.kind = "errors"
  /\ "hints" \in DOMAIN composed
  /\ Len(OriginalNodes(composed.errors[1])) > NODES_SIZE_LIMIT
  /\ DOMAIN doneCalls[Len(doneCalls)] = {"Err"}
  /\ Len(doneCalls[Len(doneCalls)].Err) = 1

----------------------------------------------------------------------------
(* plan() *)

\* The message starts with the words of the prefix.
BeginsWith(message, prefix) ==
  /\ Len(message) >= Len(prefix)
  /\ SubSeq(message, 1, Len(prefix)) = prefix

\* The call of plan() has ended, by a return or by a throw.
PlanEnded == call.fn = "plan" /\ ret # NoReturn

\* plan() returned an error result under this statsReportKey.
FailedWithKey(key) ==
  /\ ret.kind = "returned"
  /\ "errors" \in DOMAIN ret.value
  /\ "data" \notin DOMAIN ret.value
  /\ ret.value.usageReporting.statsReportKey = key

\* C33: plan() checks its input in the order parse, validation, operation
\* resolution and stops at the first stage that fails.  A request parse()
\* rejects is answered under '## GraphQLParseFailure\n'; one that parses
\* and has validation errors under '## GraphQLValidationFailure\n', also
\* when resolving its operation or planning it would fail as well; one that
\* parses and validates and whose operation does not resolve under
\* '## GraphQLUnknownOperationName\n' exactly when the message of the error
\* starts with 'Unknown operation named' or 'Must provide operation name',
\* and under the validation-failure key otherwise; in none of these cases
\* the planner is run.
C33_FirstFailingStageDecidesKey ==
  PlanEnded =>
    LET t == Traits(call.query) IN
      /\ ~t.parses => FailedWithKey("## GraphQLParseFailure\n")
      /\ (t.parses /\ t.validationErrors # <<>>)
           => FailedWithKey("## GraphQLValidationFailure\n")
      /\ (t.parses /\ t.validationErrors = <<>> /\ t.resolveError # <<>>)
           => IF \/ BeginsWith(t.resolveError, <<"Unknown", "operation", "named">>)
                 \/ BeginsWith(t.resolveError,
                               <<"Must", "provide", "operation", "name">>)
                THEN FailedWithKey("## GraphQLUnknownOperationName\n")
                ELSE FailedWithKey("## GraphQLValidationFailure\n")
      /\ (t.parses /\ t.validationErrors = <<>> /\ t.resolveError = <<>>)
           => ~(ret.kind = "returned" /\ "errors" \in DOMAIN ret.value)

\* plan() has answered a request that has validation errors and whose
\* operation would not resolve either: the validation stage decided.
C33_Witness ==
  /\ call.fn = "plan"
  /\ Traits(call.query).validationErrors # <<>>
  /\ Traits(call.query).resolveError # <<>>
  /\ ret.kind = "returned"
  /\ ret.value.usageReporting.statsReportKey = "## GraphQLValidationFailure\n"

\* C34: every value plan() returns has exactly one of data and errors.  An
\* error result has at least one error, no data and an empty
\* referencedFieldsByType; a success result has data.queryPlan, no errors,
\* and a statsReportKey made of '# ', the name of the operation or '-' when
\* it has none, a line break, and the signature.
C34_ExactlyOneOfDataAndErrors ==
  (call.fn = "plan" /\ ret.kind = "returned") =>
    LET v == ret.value IN
      /\ ("data" \in DOMAIN v) # ("errors" \in DOMAIN v)
      /\ "usageReporting" \in DOMAIN v
      /\ "errors" \in DOMAIN v
           => /\ Len(v.errors) > 0
              /\ v.usageReporting.referencedFieldsByType = {}
      /\ "data" \in DOMAIN v
           => /\ "queryPlan" \in DOMAIN v.data
              /\ Len(v.usageReporting.statsReportKey) = 4
              /\ v.usageReporting.statsReportKey[1] = "# "
              /\ v.usageReporting.statsReportKey[2] =
                   (IF Traits(call.query).operationName = ""
                      THEN "-" ELSE Traits(call.query).operationName)
              /\ v.usageReporting.statsReportKey[3] = "\n"

\* plan() has returned the plan of a named operation.
C34_Witness ==
  /\ call.fn = "plan"
  /\ ret.kind = "returned"
  /\ "data" \in DOMAIN ret.value
  /\ Traits(call.query).operationName = "Op"
  /\ ret.value.usageReporting.statsReportKey[2] = "Op"

\* C35: when the request passes the checks, the planner builds its plan
\* and pretty-printing the plan throws, plan() returns a success result with
\* the query plan and formattedQueryPlan = null, and it has logged one
\* warning; the result is not an error result and nothing is thrown.
C35_PrettyPrintFailureIsOnlyLogged ==
  (/\ PlanEnded
   /\ Traits(call.query).parses
   /\ Traits(call.query).validationErrors = <<>>
   /\ Traits(call.query).resolveError = <<>>
   /\ ~Traits(call.query).buildThrows
   /\ Traits(call.query).prettyThrows)
    => /\ ret.kind = "returned"
       /\ "errors" \notin DOMAIN ret.value
       /\ "data" \in DOMAIN ret.value
       /\ ret.value.data.queryPlan = <<call.schema, call.query>>
       /\ ret.value.data.formattedQueryPlan = "null"
       /\ Len(ret.logged) = 1
       /\ ret.logged[1].level = "warn"

\* plan() has returned for a named operation whose plan does not
\* pretty-print.
C35_Witness ==
  /\ call.fn = "plan"
  /\ call.query = "q_named_unprintable"
  /\ ret.kind = "returned"
  /\ ret.value.data.formattedQueryPlan = "null"
  /\ Len(ret.logged) = 1

----------------------------------------------------------------------------
(* apiSchema, introspect, batchIntrospect *)

\* The results of the call that has returned: the one result of apiSchema
\* or introspect, the results of batchIntrospect.
ResultsOf == IF call.fn = "batchIntrospect" THEN ret.value ELSE <<ret.value>>

\* options.graphqlValidation is true or absent
ValidationOn ==
  "graphqlValidation" \notin DOMAIN call.options \/ call.options.graphqlValidation

\* The result is the failure of regular schema parsing and nothing else.
IsRegularParseFailure(result) ==
  /\ "data" \notin DOMAIN result
  /\ Len(result.errors) = 1
  /\ result.errors[1].message = <<"Syntax Error", call.sdl>>

\* C36 as stated: with graphqlValidation false, apiSchema, introspect and
\* batchIntrospect skip regular schema parsing, so for an SDL that fails
\* only regular parsing every result is that of the built schema; with
\* graphqlValidation true or absent, for an SDL that fails regular parsing
\* every result is that failure, whether or not the supergraph build would
\* fail too, and in introspect and batchIntrospect its error carries
\* validationError: true.
C36_ValidationOptionDecidesRegularParsing ==
  (call.fn \in {"apiSchema", "introspect", "batchIntrospect"} /\ ret # NoReturn)
    => /\ ret.kind = "returned"
       /\ (~ValidationOn /\ call.sdl = "sdl_fed_only")
            => \A i \in DOMAIN ResultsOf :
                 /\ "data" \in DOMAIN ResultsOf[i]
                 /\ \A j \in DOMAIN ResultsOf[i].errors :
                      ResultsOf[i].errors[j].message # <<"Syntax Error", call.sdl>>
       /\ (ValidationOn /\ gqlBuildSchemaThrows(call.sdl))
            => \A i \in DOMAIN ResultsOf :
                 /\ IsRegularParseFailure(ResultsOf[i])
                 /\ call.fn # "apiSchema"
                      => /\ "validationError" \in DOMAIN ResultsOf[i].errors[1]
                         /\ ResultsOf[i].errors[1].validationError = TRUE

\* The result is an error result: errors and no data.
IsErrorResult(result) ==
  /\ "data" \notin DOMAIN result
  /\ "errors" \in DOMAIN result
  /\ Len(result.errors) > 0

\* All results are one and the same error result.
AllTheSameError(results) ==
  /\ \A i \in DOMAIN results : IsErrorResult(results[i])
  /\ \A i, j \in DOMAIN results : results[i] = results[j]

\* The i-th result is the introspection result of the i-th query.
EachOfItsQuery(results) ==
  \A i \in DOMAIN results : results[i] = introspectOne(call.sdl, call.queries[i])

\* C37: batchIntrospect returns one result per query, in the order of the
\* queries.  The results are as many as the queries; for an SDL every
\* parser takes the i-th result is the introspection result of the i-th
\* query; for an SDL the supergraph build rejects, or that regular parsing
\* rejects while graphqlValidation is true or absent, all results are the
\* same error result; on every path the results are one or the other.
C37_OneResultPerQueryInOrder ==
  (call.fn = "batchIntrospect" /\ ret # NoReturn)
    => /\ ret.kind = "returned"
       /\ Len(ret.value) = Len(call.queries)
       /\ DOMAIN ret.value = DOMAIN call.queries
       /\ AllTheSameError(ret.value) \/ EachOfItsQuery(ret.value)
       /\ call.sdl = "sdl_ok" => EachOfItsQuery(ret.value)
       /\ (\/ buildSchemaThrows(call.sdl)
           \/ ValidationOn /\ gqlBuildSchemaThrows(call.sdl))
            => AllTheSameError(ret.value)

\* batchIntrospect has returned for two queries of which the first fails
\* and the second does not, on a schema that was built.
C37_Witness ==
  /\ call.fn = "batchIntrospect"
  /\ call.sdl = "sdl_ok"
  /\ call.queries = <<"i_bad", "i_types">>
  /\ ret.kind = "returned"
  /\ Len(ret.value) = 2
  /\ ret.value[1].errors # <<>>
  /\ ret.value[2].errors = <<>>

====
